---- MODULE Spec2Model ----
(***************************************************************************)
(* A model of the retrieval-evaluation-answer pipeline of DocToolsLLM:     *)
(* the judge-output parser, the document refilter and the handler of       *)
(* _query, the usability heuristic of intermediate answers, the duplicate  *)
(* removal of the constructor and the budget check of the summary task,    *)
(* the reduction of the answers and the output of _query, the cleanup and  *)
(* the recursive passes of summarize_documents, the model calls in flight  *)
(* during a query, evaluate_doc_chain, the constructor's choice of task    *)
(* and retrievers with the start of _query, the order of the steps of      *)
(* rag_chain, and the evaluation cache with the token counters of the      *)
(* judge model, alone and under concurrent evaluations.                    *)
(* Strings whose characters matter are sequences of one-character strings. *)
(***************************************************************************)
EXTENDS Integers, Sequences, FiniteSets, TLC

VARIABLES
    output,          \* parse_eval_output: the judge model's text
    parse_out,       \* parse_eval_output: how the call ended
    ans,             \* check_intermediate_answer: the answer text
    usable,          \* check_intermediate_answer: the returned value
    unfiltered_docs, \* _query: the documents the retriever returned
    evaluations,     \* _query: the votes of each retrieved document
    rag_out,         \* _query: how rag_chain.invoke ended
    query_out,       \* _query: how _query ended
    batch_docs,      \* __init__: the list batch_load_doc returned
    loaded_docs,     \* __init__: self.loaded_docs
    removed_docs,    \* __init__: the local removed_docs
    removed_paths,   \* __init__: the local removed_paths
    init_out,        \* __init__: how the duplicate removal ended
    modelname,       \* __init__: self.modelname
    api_base,        \* __init__: self.llms_api_bases["model"]
    llm_price,       \* __init__: self.llm_price
    full_tkn,        \* _summary_task: the tokens of the loaded documents
    dollar_limit,    \* __init__: self.dollar_limit
    summary_n_recursion, \* __init__: self.summary_n_recursion
    budget_log,      \* _summary_task: what the budget check logged
    summary_out,     \* _summary_task: how far the task got
    llm_calls,       \* _summary_task: summarization calls made so far
    out_filtered_docs, \* _query: output["filtered_docs"]
    doc_answers,     \* _query: output["intermediate_answers"]
    intermediate_answers,     \* _query: the local intermediate_answers
    all_intermediate_answers, \* _query: the local all_intermediate_answers
    combine_calls,   \* _query: the calls of final_answer_chain so far
    n_passes,        \* _query: iterations of the while loop so far
    reduce_out,      \* _query: the output once the reduction is over
    cleanup_in,      \* cleanup: the summary text given
    cleaned_once,    \* cleanup: how the first application ended
    cleaned_twice,   \* cleanup: how the second application ended
    summary_text,    \* summarize_documents: the local summary_text
    n_recur,         \* summarize_documents: the loop variable n_recur
    n_recursion_done,    \* summarize_documents: the local n_recursion_done
    recursive_summaries, \* summarize_documents: depth -> summary
    doc_total_tokens,    \* summarize_documents: the local doc_total_tokens
    pass_tokens,     \* summarize_documents: tokens of each do_summarize call
    summarize_calls, \* summarize_documents: n_recursion of each call made
    stopped_at,      \* summarize_documents: the pass whose check failed
    summarize_out,   \* summarize_documents: how the call ended
    debug,           \* _query: self.debug
    conc_has_n,      \* _query: "n" in self.eval_llm_params
    eval_status,     \* _query: each document's evaluation
    eval_pending,    \* _query: each evaluation's model calls in flight
    answer_status,   \* _query: each document's answer generation
    eval_has_n,      \* evaluate_doc_chain: "n" in self.eval_llm_params
    eval_response,   \* evaluate_doc_chain: what the backend answers
    eval_out,        \* evaluate_doc_chain: how the call ended
    eval_calls,       \* evaluate_doc_chain: model calls made
    args,            \* __init__: the arguments task, modelname, query_retrievers
    task,            \* __init__: self.task
    query_retrievers,     \* __init__: self.query_retrievers
    interaction_settings, \* prepare_query_task: interaction_settings["retriever"]
    query,           \* _query: the argument query of the last call
    retrievers,      \* _query: the local retrievers
    query_fe,        \* _query: the local query_fe
    query_an,        \* _query: the local query_an
    events,          \* what the session has run so far, in order
    n_queries,       \* the calls of _query made so far
    failed_line,     \* the line of the assert that failed, 0 if none did
    session_pc,      \* __init__: the position reached
    session_out,     \* how __init__ or the last _query ended
    retrieved_docs,  \* rag_chain: the unfiltered_docs of retrieve_documents
    doc_evaluations, \* rag_chain: how the evaluation of each document ended
    refiltered,      \* rag_chain: how refilter_docs ended
    answer_calls,    \* rag_chain: the documents answer_each_doc_chain got
    combine_started, \* _query: the reduction after the chain was entered
    chain_out,       \* _query: how the try statement around the chain ended
    no_llm_cache,    \* __init__: self.no_llm_cache
    eval_llm_has_n,  \* _query: "n" in self.eval_llm_params
    doc_eval_cache,  \* the entries of doc_eval_cache
    callback,        \* self.eval_llm.callbacks[0]: the three token counters
    judge_calls,     \* calls of the judge model made so far
    last_eval,       \* the last call of evaluate_doc_chain, with what held
                     \* before it
    n_evals,         \* calls of evaluate_doc_chain made so far
    worker_pc,       \* RunnableEach: where each worker's evaluation is
    worker_reg,      \* RunnableEach: the counter value each worker has read
    worker_tokens,   \* RunnableEach: new_p and new_c of each evaluation
    callback_start   \* the three token counters before the query

parseVars == <<output, parse_out>>

answerVars == <<ans, usable>>

filterVars == <<unfiltered_docs, evaluations, rag_out, query_out>>

dedupVars == <<batch_docs, loaded_docs, removed_docs, removed_paths, init_out>>

budgetVars == <<modelname, api_base, llm_price, full_tkn, dollar_limit,
                summary_n_recursion, budget_log, summary_out, llm_calls>>

reduceVars == <<out_filtered_docs, doc_answers, intermediate_answers,
                all_intermediate_answers, combine_calls, n_passes, reduce_out>>

cleanupVars == <<cleanup_in, cleaned_once, cleaned_twice>>

recursionVars == <<summary_text, n_recur, n_recursion_done,
                   recursive_summaries, doc_total_tokens, pass_tokens,
                   summarize_calls, stopped_at, summarize_out>>

concVars == <<debug, conc_has_n, eval_status, eval_pending, answer_status>>

evalVars == <<eval_has_n, eval_response, eval_out, eval_calls>>

firstVars == <<parseVars, answerVars, filterVars, dedupVars, budgetVars>>

secondVars == <<reduceVars, cleanupVars, recursionVars, concVars, evalVars>>

sessionVars == <<args, task, query_retrievers, interaction_settings, query,
                 retrievers, query_fe, query_an, events, n_queries,
                 failed_line, session_pc, session_out>>

chainVars == <<retrieved_docs, doc_evaluations, refiltered, answer_calls,
               combine_started, chain_out>>

ledgerVars == <<no_llm_cache, eval_llm_has_n, doc_eval_cache, callback,
                judge_calls, last_eval, n_evals>>

raceVars == <<worker_pc, worker_reg, worker_tokens, callback_start>>

thirdVars == <<sessionVars, chainVars, ledgerVars, raceVars>>

laterVars == <<secondVars, thirdVars>>

vars == <<firstVars, laterVars>>

\* A call that has not been made yet.
NotCalled == [kind |-> "not_called"]

Return(v) == [kind |-> "return", val |-> v]

Raise(e) == [kind |-> "raise", exc |-> e]

Range(s) == {s[i] : i \in 1..Len(s)}

\* All sequences over S of length at most n.
SeqsUpTo(S, n) == UNION {[1..k -> S] : k \in 0..n}

RECURSIVE Concat(_)
Concat(ss) == IF ss = <<>> THEN <<>> ELSE Head(ss) \o Concat(Tail(ss))

(***************************************************************************)
(* str methods used by the code.                                           *)
(***************************************************************************)
isdigit(c) == c \in {"0", "1", "2", "3", "4", "5", "6", "7", "8", "9"}

isspace(c) == c \in {" ", "\t", "\n"}

isalpha(c) ==
    c \in {"a", "b", "c", "d", "e", "f", "g", "h", "i", "j", "k", "l", "m",
           "n", "o", "p", "q", "r", "s", "t", "u", "v", "w", "x", "y", "z",
           "A", "B", "C", "D", "E", "F", "G", "H", "I", "J", "K", "L", "M",
           "N", "O", "P", "Q", "R", "S", "T", "U", "V", "W", "X", "Y", "Z"}

\* A character of the regex class \w.
isword(c) == isalpha(c) \/ isdigit(c) \/ c = "_"

\* str.strip(): the text without its leading and trailing whitespace.
strip(s) ==
    LET keep == {i \in 1..Len(s) : ~isspace(s[i])}
        lo == CHOOSE i \in keep : \A j \in keep : i <= j
        hi == CHOOSE i \in keep : \A j \in keep : j <= i
    IN  IF keep = {} THEN <<>> ELSE SubSeq(s, lo, hi)

(***************************************************************************)
(* utils/tasks/query.py: parse_eval_output                                 *)
(***************************************************************************)
InvalidDocEvaluationByWeakLLM == "InvalidDocEvaluationByWeakLLM"

\* The builtin Exception raised by the last line of parse_eval_output.
PlainException == "Exception"

\* parse_eval_output without its test for a '-' character.
parse_eval_output_nodash(out) ==
    LET digits == SelectSeq(out, isdigit) IN
    IF strip(out) = <<>> THEN Raise(InvalidDocEvaluationByWeakLLM)
    ELSE IF digits = <<>> THEN Raise(InvalidDocEvaluationByWeakLLM)
    ELSE IF Len(digits) = 1 THEN
        IF digits[1] = "0" THEN Return("0")
        ELSE IF digits[1] = "1" THEN Return("1")
        ELSE Raise(InvalidDocEvaluationByWeakLLM)
    ELSE IF "0" \in Range(digits) /\ "1" \in Range(digits)
        THEN Raise(InvalidDocEvaluationByWeakLLM)
    ELSE IF "0" \notin Range(digits) /\ "1" \notin Range(digits)
        THEN Raise(InvalidDocEvaluationByWeakLLM)
    ELSE Raise(PlainException)

parse_eval_output(out) ==
    LET digits == SelectSeq(out, isdigit) IN
    IF strip(out) = <<>> THEN Raise(InvalidDocEvaluationByWeakLLM)
    ELSE IF "-" \in Range(out) THEN Raise(InvalidDocEvaluationByWeakLLM)
    ELSE IF digits = <<>> THEN Raise(InvalidDocEvaluationByWeakLLM)
    ELSE IF Len(digits) = 1 THEN
        IF digits[1] = "0" THEN Return("0")
        ELSE IF digits[1] = "1" THEN Return("1")
        ELSE Raise(InvalidDocEvaluationByWeakLLM)
    ELSE IF "0" \in Range(digits) /\ "1" \in Range(digits)
        THEN Raise(InvalidDocEvaluationByWeakLLM)
    ELSE IF "0" \notin Range(digits) /\ "1" \notin Range(digits)
        THEN Raise(InvalidDocEvaluationByWeakLLM)
    ELSE Raise(PlainException)

(***************************************************************************)
(* utils/tasks/query.py: check_intermediate_answer                         *)
(***************************************************************************)
IRRELEVANT == <<"I", "R", "R", "E", "L", "E", "V", "A", "N", "T">>

\* re.search(r"\bIRRELEVANT\b", s): the word occurs with a word boundary on
\* both sides (the text's end, or a character that is not of \w).
search_IRRELEVANT(s) ==
    \E i \in 1..(Len(s) - Len(IRRELEVANT) + 1) :
        /\ SubSeq(s, i, i + Len(IRRELEVANT) - 1) = IRRELEVANT
        /\ (i = 1 \/ ~isword(s[i - 1]))
        /\ (i + Len(IRRELEVANT) > Len(s) \/ ~isword(s[i + Len(IRRELEVANT)]))

\* check_intermediate_answer with > for >= in its second test.
check_intermediate_answer_gt(a) ==
    \/ (~search_IRRELEVANT(a) /\ Len(a) < Len(IRRELEVANT) * 2)
    \/ Len(a) > Len(IRRELEVANT) * 2

check_intermediate_answer(a) ==
    \/ (~search_IRRELEVANT(a) /\ Len(a) < Len(IRRELEVANT) * 2)
    \/ Len(a) >= Len(IRRELEVANT) * 2

(***************************************************************************)
(* utils/tasks/query.py: refilter_docs                                     *)
(* A vote is a string (a sequence of characters); the evaluation of one    *)
(* document is a list of votes, or one vote that is not in a list.         *)
(***************************************************************************)
NoDocumentsRetrieved == "NoDocumentsRetrieved"

\* The error kind refilter_docs raises when no document is kept.
NoDocumentsAfterWeakLLMFiltering == "NoDocumentsAfterWeakLLMFiltering"

\* The error kind the second except clause of _query names.
NoDocumentsAfterLLMEvalFiltering == "NoDocumentsAfterLLMEvalFiltering"

AssertionError == "AssertionError"

EvalList(votes) == [islist |-> TRUE, items |-> votes]

EvalBare(vote) == [islist |-> FALSE, item |-> vote]

\* str.isdigit(): a non-empty string of digit characters.
str_isdigit(s) == s # <<>> /\ \A i \in 1..Len(s) : isdigit(s[i])

DigitValue(c) ==
    CASE c = "0" -> 0 [] c = "1" -> 1 [] c = "2" -> 2 [] c = "3" -> 3
      [] c = "4" -> 4 [] c = "5" -> 5 [] c = "6" -> 6 [] c = "7" -> 7
      [] c = "8" -> 8 [] c = "9" -> 9

\* int(s) of a string of digits.
RECURSIVE str_int(_)
str_int(s) ==
    IF s = <<>> THEN 0
    ELSE str_int(SubSeq(s, 1, Len(s) - 1)) * 10 + DigitValue(s[Len(s)])

RECURSIVE sum_ints(_)
sum_ints(votes) ==
    IF votes = <<>> THEN 0 ELSE str_int(Head(votes)) + sum_ints(Tail(votes))

\* The body of the loop of refilter_docs with a majority rule for sum != 0.
keeps_doc_majority(evaluation) ==
    LET evals == IF evaluation.islist THEN evaluation.items
                 ELSE <<evaluation.item>>
    IN  IF \A i \in 1..Len(evals) : str_isdigit(evals[i])
        THEN sum_ints(evals) * 2 > Len(evals)
        ELSE TRUE

\* The body of the loop of refilter_docs: whether the document is appended.
keeps_doc(evaluation) ==
    LET evals == IF evaluation.islist THEN evaluation.items
                 ELSE <<evaluation.item>>
    IN  IF \A i \in 1..Len(evals) : str_isdigit(evals[i])
        THEN sum_ints(evals) # 0
        ELSE TRUE

\* The loop of refilter_docs over enumerate(evaluations), from index ie on.
RECURSIVE filter_from(_, _, _)
filter_from(docs, evals, ie) ==
    IF ie > Len(evals) THEN <<>>
    ELSE (IF keeps_doc(evals[ie]) THEN <<docs[ie]>> ELSE <<>>)
         \o filter_from(docs, evals, ie + 1)

\* refilter_docs without its test for an empty unfiltered_docs.
refilter_docs_noempty(docs, evals) ==
    LET filtered_docs == filter_from(docs, evals, 1) IN
    IF Len(docs) # Len(evals) THEN Raise(AssertionError)
    ELSE IF filtered_docs = <<>> THEN Raise(NoDocumentsAfterWeakLLMFiltering)
    ELSE Return(filtered_docs)

refilter_docs(docs, evals) ==
    LET filtered_docs == filter_from(docs, evals, 1) IN
    IF Len(docs) # Len(evals) THEN Raise(AssertionError)
    ELSE IF docs = <<>> THEN Raise(NoDocumentsRetrieved)
    ELSE IF filtered_docs = <<>> THEN Raise(NoDocumentsAfterWeakLLMFiltering)
    ELSE Return(filtered_docs)

(***************************************************************************)
(* DocToolsLLM.py: _query, the try statement around rag_chain.invoke       *)
(***************************************************************************)
\* What _query returns from an except clause: the message it printed.
Reported(message) ==
    [kind |-> "return", printed |-> message, final_answer |-> FALSE]

\* _query went on past the try statement, to the final answer.
Answered == [kind |-> "return", printed |-> "Answer", final_answer |-> TRUE]

\* The except clauses of _query, by the error kind rag_chain.invoke raised.
query_except(exc) ==
    IF exc = NoDocumentsRetrieved
        THEN Reported("No documents were retrieved")
    ELSE IF exc = NoDocumentsAfterLLMEvalFiltering
        THEN Reported("No documents remained after query eval LLM filtering")
    ELSE Raise(exc)

(***************************************************************************)
(* The inputs of the two pure functions.                                   *)
(***************************************************************************)
\* The longest judge output enumerated character by character.
MaxOutLen == 3

EvalAlphabet == {"0", "1", "2", "-", " ", "a"}

\* Outputs longer than MaxOutLen: the examples of the specification.
EvalExamples ==
    { <<"1", " ", "a", "n", "d", " ", "0">>,
      <<"a", "b", "c">>,
      <<"A", "n", "s", "w", "e", "r", ":", " ", "0">>,
      <<"0", " ", "0">>,
      <<"1", "1">>,
      <<" ", "\n", "\t">>,
      <<"1", "\n">> }

EvalOutputs == SeqsUpTo(EvalAlphabet, MaxOutLen) \cup EvalExamples

\* The most pieces an enumerated answer is made of.
MaxPieces == 4

AnswerPieces ==
    { IRRELEVANT,
      <<"i", "r", "r", "e", "l", "e", "v", "a", "n", "t">>,
      <<"a", "n", "s", "w", "e", "r", " ", "4">>,
      <<"a">>,
      <<" ">>,
      <<"_">> }

Answers == {Concat(ps) : ps \in SeqsUpTo(AnswerPieces, MaxPieces)}

\* The most documents a retrieval returns.
MaxDocs == 2

\* The votes of one evaluation: the default of query_eval_check_number.
query_eval_check_number == 3

\* The votes: the two the parser returns, another digit, and a non-digit.
VoteStrings == {<<"0">>, <<"1">>, <<"2">>, <<"x">>}

Evaluations ==
    {EvalList(v) : v \in [1..query_eval_check_number -> VoteStrings]}
        \cup {EvalBare(v) : v \in VoteStrings}


(***************************************************************************)
(* DocToolsLLM.py: __init__, the removal of documents with the same hash   *)
(* A document is its metadata: the identity of the metadata object, the    *)
(* hash and the path.                                                      *)
(***************************************************************************)
\* Python's None, in a list of documents.
None == [mid |-> 0]

Doc(m, h, p) == [mid |-> m, hash |-> h, path |-> p]

\* hashes.count(h)
count_hash(docs, h) == Cardinality({i \in 1..Len(docs) : docs[i].hash = h})

uniq_hashes(docs) == {docs[i].hash : i \in 1..Len(docs)}

\* The loop's state: the list being edited and the locals it updates.
LoopState(docs, counter, removed) ==
    [docs |-> docs, counter |-> counter, removed_docs |-> removed]

\* One turn of the loop that never decrements counter[h].
dedup_turn_nodecrement(st, i) ==
    LET h == st.docs[i].hash
        n == st.counter[h]
    IN  IF n > 1
        THEN LoopState([st.docs EXCEPT ![i] = None], st.counter,
                       Append(st.removed_docs, st.docs[i]))
        ELSE st

\* One turn of the loop that removes a document when an earlier one that
\* is still in the list has its hash.
dedup_turn_keepfirst(st, i) ==
    LET h == st.docs[i].hash
    IN  IF \E j \in 1..(i - 1) : st.docs[j] # None /\ st.docs[j].hash = h
        THEN LoopState([st.docs EXCEPT ![i] = None],
                       [st.counter EXCEPT ![h] = @ - 1],
                       Append(st.removed_docs, st.docs[i]))
        ELSE st

\* One turn of the loop over enumerate(self.loaded_docs).
dedup_turn(st, i) ==
    LET h == st.docs[i].hash
        n == st.counter[h]
    IN  IF n > 1
        THEN LoopState([st.docs EXCEPT ![i] = None],
                       [st.counter EXCEPT ![h] = @ - 1],
                       Append(st.removed_docs, st.docs[i]))
        ELSE st

RECURSIVE dedup_loop(_, _)
dedup_loop(st, i) ==
    IF i > Len(st.docs) THEN st ELSE dedup_loop(dedup_turn(st, i), i + 1)

IsDoc(d) == d # None

\* The part of __init__ that follows batch_load_doc: what it leaves in
\* self.loaded_docs and in its locals, and how it ends. removed_paths is
\* created empty and nothing appends to it. The loop's assert counter[h] > 0
\* is tested on the counter the loop leaves, which only ever decreases.
remove_duplicates(docs) ==
    LET ids == {docs[i].mid : i \in 1..Len(docs)}
        counter == [h \in uniq_hashes(docs) |-> count_hash(docs, h)]
        st == dedup_loop(LoopState(docs, counter, <<>>), 1)
        kept == SelectSeq(st.docs, IsDoc)
        removed_paths_ == <<>>
        present_path == {kept[i].path : i \in 1..Len(kept)}
        intersect == Range(removed_paths_) \cap present_path
        untouched == [loaded_docs |-> docs, removed_docs |-> <<>>,
                      removed_paths |-> <<>>]
    IN  IF Len(docs) > 1
        THEN IF Cardinality(ids) # Len(docs)
             THEN untouched @@ [out |-> Raise(AssertionError)]
             ELSE IF Len(docs) # Cardinality(uniq_hashes(docs))
             THEN [loaded_docs |-> kept, removed_docs |-> st.removed_docs,
                   removed_paths |-> removed_paths_,
                   out |-> IF \E h \in DOMAIN st.counter : st.counter[h] <= 0
                               THEN Raise(AssertionError)
                           ELSE IF intersect # {} THEN Raise(PlainException)
                           ELSE Return("loaded")]
             ELSE untouched @@ [out |-> Return("loaded")]
        ELSE untouched @@ [out |-> Return("loaded")]

(***************************************************************************)
(* DocToolsLLM.py: __init__ (the price of the model) and _summary_task     *)
(* (the estimate and the budget check). Prices are whole cents per token;  *)
(* the estimate is kept as a fraction, num / den dollars, where the code   *)
(* computes a float.                                                       *)
(***************************************************************************)
\* llms_api_bases["model"] when no endpoint was given.
NoApiBase == "None"

\* litellm.model_cost: input and output cost per token of the known models.
model_cost ==
    [m \in {"openai/gpt-4o", "mistral/mistral-large-latest"} |->
        IF m = "openai/gpt-4o" THEN <<1, 3>> ELSE <<4, 6>>]

\* self.llm_price as __init__ sets it.
init_llm_price(base, name) ==
    IF base # NoApiBase THEN <<0, 0>> ELSE model_cost[name]

RECURSIVE pow(_, _)
pow(b, e) == IF e = 0 THEN 1 ELSE b * pow(b, e - 1)

\* The term of a level with 1/5 where the code has 2/5.
estimate_term_fifth(tkn, price, n, i) ==
    tkn * (price[1] * 3 + price[2] * 2) * 12 * pow(5, n - i)

\* full_tkn * ((2/5) ** i) * adj_price / 100 * 1.2, over estimate_den(n).
estimate_term(tkn, price, n, i) ==
    tkn * (price[1] * 3 + price[2] * 2) * 12 * pow(2, i) * pow(5, n - i)

RECURSIVE estimate_terms(_, _, _, _)
estimate_terms(tkn, price, n, i) ==
    IF i > n THEN 0
    ELSE estimate_term(tkn, price, n, i) + estimate_terms(tkn, price, n, i + 1)

\* estimate_dol = estimate_num / estimate_den.
estimate_num(tkn, price, n) ==
    estimate_term(tkn, price, n, 0)
        + (IF n # 0 THEN estimate_terms(tkn, price, n, 1) ELSE 0)

\* /5 of adj_price, /100, the 10 of 1.2, the n divisions by 5, cents.
estimate_den(n) == 5 * 100 * 10 * pow(5, n) * 100

\* estimate_dol > self.dollar_limit
over_limit(tkn, price, n, limit) ==
    estimate_num(tkn, price, n) > limit * estimate_den(n)

Estimated == [kind |-> "estimated"]

Summarized == [kind |-> "return"]

\* The budget check of _summary_task: how the task goes on and what it logs.
budget_check(tkn, price, n, limit, base) ==
    IF over_limit(tkn, price, n, limit)
    THEN IF base # NoApiBase
         THEN [out |-> Raise(PlainException), log |-> "Quitting"]
         ELSE [out |-> Estimated, log |-> "not crashing"]
    ELSE [out |-> Estimated, log |-> "none"]

(***************************************************************************)
(* The inputs of the constructor and of the summary task.                  *)
(***************************************************************************)
\* The most documents batch_load_doc returns.
MaxLoaded == 3

Hashes == {"hA", "hB", "hC"}

Paths == {"p1", "p2"}

\* Lists of documents, each with a metadata object of its own.
DocLists ==
    UNION {{[i \in 1..n |-> Doc(i, hp[i][1], hp[i][2])] :
                hp \in [1..n -> Hashes \X Paths]} : n \in 0..MaxLoaded}

\* The largest summary_n_recursion.
MaxRecursion == 2

TokenCounts == {0, 100, 10000}

DollarLimits == {-1, 0, 1, 5}

ApiBases == {NoApiBase, "http://localhost:11434/v1"}

(***************************************************************************)
(* The values of the variables a specification does not use.               *)
(***************************************************************************)
IdleParse == output = <<>> /\ parse_out = NotCalled

IdleAnswer == ans = <<>> /\ usable = NotCalled

IdleFilter ==
    /\ unfiltered_docs = <<>>
    /\ evaluations = <<>>
    /\ rag_out = NotCalled
    /\ query_out = NotCalled

IdleDedup ==
    /\ batch_docs = <<>>
    /\ loaded_docs = <<>>
    /\ removed_docs = <<>>
    /\ removed_paths = <<>>
    /\ init_out = NotCalled

IdleBudget ==
    /\ modelname = "openai/gpt-4o"
    /\ api_base = NoApiBase
    /\ llm_price = <<0, 0>>
    /\ full_tkn = 0
    /\ dollar_limit = 0
    /\ summary_n_recursion = 0
    /\ budget_log = "none"
    /\ summary_out = NotCalled
    /\ llm_calls = 0

IdleReduce ==
    /\ out_filtered_docs = <<>>
    /\ doc_answers = <<>>
    /\ intermediate_answers = <<>>
    /\ all_intermediate_answers = <<>>
    /\ combine_calls = <<>>
    /\ n_passes = 0
    /\ reduce_out = NotCalled

IdleCleanup ==
    /\ cleanup_in = <<>>
    /\ cleaned_once = NotCalled
    /\ cleaned_twice = NotCalled

IdleRecursion ==
    /\ summary_text = <<>>
    /\ n_recur = 0
    /\ n_recursion_done = 0
    /\ recursive_summaries = <<>>
    /\ doc_total_tokens = 0
    /\ pass_tokens = <<>>
    /\ summarize_calls = <<>>
    /\ stopped_at = 0
    /\ summarize_out = NotCalled

IdleConc ==
    /\ debug = FALSE
    /\ conc_has_n = TRUE
    /\ eval_status = <<>>
    /\ eval_pending = <<>>
    /\ answer_status = <<>>

IdleEval ==
    /\ eval_has_n = TRUE
    /\ eval_response = <<>>
    /\ eval_out = NotCalled
    /\ eval_calls = 0

IdleFirst == IdleParse /\ IdleAnswer /\ IdleFilter /\ IdleDedup /\ IdleBudget

IdleSecond ==
    IdleReduce /\ IdleCleanup /\ IdleRecursion /\ IdleConc /\ IdleEval

IdleSession ==
    /\ args = <<>>
    /\ task = <<>>
    /\ query_retrievers = <<>>
    /\ interaction_settings = <<>>
    /\ query = <<>>
    /\ retrievers = <<>>
    /\ query_fe = <<>>
    /\ query_an = <<>>
    /\ events = <<>>
    /\ n_queries = 0
    /\ failed_line = 0
    /\ session_pc = "idle"
    /\ session_out = NotCalled

IdleChain ==
    /\ retrieved_docs = <<>>
    /\ doc_evaluations = <<>>
    /\ refiltered = NotCalled
    /\ answer_calls = <<>>
    /\ combine_started = FALSE
    /\ chain_out = NotCalled

IdleLedger ==
    /\ no_llm_cache = FALSE
    /\ eval_llm_has_n = TRUE
    /\ doc_eval_cache = {}
    /\ callback = <<>>
    /\ judge_calls = 0
    /\ last_eval = <<>>
    /\ n_evals = 0

IdleRace ==
    /\ worker_pc = <<>>
    /\ worker_reg = <<>>
    /\ worker_tokens = <<>>
    /\ callback_start = <<>>

IdleThird == IdleSession /\ IdleChain /\ IdleLedger /\ IdleRace

IdleLater == IdleSecond /\ IdleThird

(***************************************************************************)
(* SpecParse: parse_eval_output applied to one judge output.               *)
(***************************************************************************)
InitParse ==
    /\ IdleLater
    /\ output \in EvalOutputs
    /\ parse_out = NotCalled
    /\ IdleAnswer /\ IdleFilter /\ IdleDedup /\ IdleBudget

ParseEvalOutput ==
    /\ UNCHANGED laterVars
    /\ parse_out = NotCalled
    /\ parse_out' = parse_eval_output(output)
    /\ UNCHANGED <<output, answerVars, filterVars, dedupVars, budgetVars>>

NextParse == ParseEvalOutput

SpecParse == InitParse /\ [][NextParse]_vars

(***************************************************************************)
(* SpecAnswer: check_intermediate_answer applied to one answer.            *)
(***************************************************************************)
InitAnswer ==
    /\ IdleLater
    /\ ans \in Answers
    /\ usable = NotCalled
    /\ IdleParse /\ IdleFilter /\ IdleDedup /\ IdleBudget

CheckIntermediateAnswer ==
    /\ UNCHANGED laterVars
    /\ usable = NotCalled
    /\ usable' = Return(check_intermediate_answer(ans))
    /\ UNCHANGED <<ans, parseVars, filterVars, dedupVars, budgetVars>>

NextAnswer == CheckIntermediateAnswer

SpecAnswer == InitAnswer /\ [][NextAnswer]_vars

(***************************************************************************)
(* SpecFilter: one call of _query from the retrieved documents and their   *)
(* votes on: rag_chain.invoke runs refilter_docs, then _query either goes  *)
(* on to the answers or handles what was raised.                           *)
(***************************************************************************)
InitFilter ==
    /\ IdleLater
    /\ \E n \in 0..MaxDocs :
        /\ unfiltered_docs = [i \in 1..n |-> i]
        /\ evaluations \in [1..n -> Evaluations]
    /\ rag_out = NotCalled
    /\ query_out = NotCalled
    /\ IdleParse /\ IdleAnswer /\ IdleDedup /\ IdleBudget

RagChainInvoke ==
    /\ UNCHANGED laterVars
    /\ rag_out = NotCalled
    /\ rag_out' = refilter_docs(unfiltered_docs, evaluations)
    /\ UNCHANGED <<unfiltered_docs, evaluations, query_out>>
    /\ UNCHANGED <<parseVars, answerVars, dedupVars, budgetVars>>

QueryContinue ==
    /\ UNCHANGED laterVars
    /\ rag_out.kind = "return"
    /\ query_out = NotCalled
    /\ query_out' = Answered
    /\ UNCHANGED <<unfiltered_docs, evaluations, rag_out>>
    /\ UNCHANGED <<parseVars, answerVars, dedupVars, budgetVars>>

QueryExcept ==
    /\ UNCHANGED laterVars
    /\ rag_out.kind = "raise"
    /\ query_out = NotCalled
    /\ query_out' = query_except(rag_out.exc)
    /\ UNCHANGED <<unfiltered_docs, evaluations, rag_out>>
    /\ UNCHANGED <<parseVars, answerVars, dedupVars, budgetVars>>

NextFilter == RagChainInvoke \/ QueryContinue \/ QueryExcept

SpecFilter == InitFilter /\ [][NextFilter]_vars

(***************************************************************************)
(* SpecDedup: the constructor from the return of batch_load_doc to the end *)
(* of the duplicate removal.                                               *)
(***************************************************************************)
InitDedup ==
    /\ IdleLater
    /\ batch_docs \in DocLists
    /\ loaded_docs = batch_docs
    /\ removed_docs = <<>>
    /\ removed_paths = <<>>
    /\ init_out = NotCalled
    /\ IdleParse /\ IdleAnswer /\ IdleFilter /\ IdleBudget

RemoveDuplicates ==
    /\ UNCHANGED laterVars
    /\ init_out = NotCalled
    /\ LET r == remove_duplicates(loaded_docs) IN
        /\ loaded_docs' = r.loaded_docs
        /\ removed_docs' = r.removed_docs
        /\ removed_paths' = r.removed_paths
        /\ init_out' = r.out
    /\ UNCHANGED <<batch_docs, parseVars, answerVars, filterVars, budgetVars>>

NextDedup == RemoveDuplicates

SpecDedup == InitDedup /\ [][NextDedup]_vars

(***************************************************************************)
(* SpecBudget: the summary task from its start to the first call of the    *)
(* summarization model.                                                    *)
(***************************************************************************)
InitBudget ==
    /\ IdleLater
    /\ modelname \in DOMAIN model_cost
    /\ api_base \in ApiBases
    /\ llm_price = init_llm_price(api_base, modelname)
    /\ full_tkn \in TokenCounts
    /\ dollar_limit \in DollarLimits
    /\ summary_n_recursion \in 0..MaxRecursion
    /\ budget_log = "none"
    /\ summary_out = NotCalled
    /\ llm_calls = 0
    /\ IdleParse /\ IdleAnswer /\ IdleFilter /\ IdleDedup

BudgetCheck ==
    /\ UNCHANGED laterVars
    /\ summary_out = NotCalled
    /\ LET r == budget_check(full_tkn, llm_price, summary_n_recursion,
                             dollar_limit, api_base) IN
        /\ summary_out' = r.out
        /\ budget_log' = r.log
    /\ UNCHANGED <<modelname, api_base, llm_price, full_tkn, dollar_limit,
                   summary_n_recursion, llm_calls>>
    /\ UNCHANGED <<parseVars, answerVars, filterVars, dedupVars>>

SummarizeDocuments ==
    /\ UNCHANGED laterVars
    /\ summary_out = Estimated
    /\ llm_calls' = llm_calls + 1
    /\ summary_out' = Summarized
    /\ UNCHANGED <<modelname, api_base, llm_price, full_tkn, dollar_limit,
                   summary_n_recursion, budget_log>>
    /\ UNCHANGED <<parseVars, answerVars, filterVars, dedupVars>>

NextBudget == BudgetCheck \/ SummarizeDocuments

SpecBudget == InitBudget /\ [][NextBudget]_vars

(***************************************************************************)
(* DocToolsLLM.py: _query, the reduction of the per-document answers to    *)
(* the final answer, and the output of the query.                          *)
(***************************************************************************)
batch_size == 5

\* The answers final_answer_chain joins into the text it has combined.
combined_answers(answers) == SelectSeq(answers, check_intermediate_answer)

\* One turn of the for loop that fills batches, without the test that
\* opens a new batch.
batch_turn_nosplit(batches, ia) ==
    IF ~check_intermediate_answer(ia) THEN batches
    ELSE [batches EXCEPT ![Len(batches)] = Append(@, ia)]

\* One turn of the for loop that fills batches, with a batch opened for
\* every answer after the first.
batch_turn_single(batches, ia) ==
    IF ~check_intermediate_answer(ia) THEN batches
    ELSE IF batches[Len(batches)] = <<>>
         THEN [batches EXCEPT ![Len(batches)] = Append(@, ia)]
    ELSE Append(batches, <<ia>>)

\* One turn of the for loop that fills batches.
batch_turn(batches, ia) ==
    IF ~check_intermediate_answer(ia) THEN batches
    ELSE LET opened == IF Len(batches[Len(batches)]) >= batch_size
                       THEN Append(batches, <<>>)
                       ELSE batches
         IN IF Len(opened[Len(opened)]) < batch_size
            THEN [opened EXCEPT ![Len(opened)] = Append(@, ia)]
            ELSE opened

RECURSIVE batch_loop(_, _)
batch_loop(batches, answers) ==
    IF answers = <<>> THEN batches
    ELSE batch_loop(batch_turn(batches, Head(answers)), Tail(answers))

make_batches(answers) == batch_loop(<< <<>> >>, answers)

\* The arguments of one call of final_answer_chain.
CombineCall(answers, batched) ==
    [intermediate_answers |-> answers, batched |-> batched]

\* The two relevant_* lists, with every filtered document kept.
relevant_lists_all(docs, answers) ==
    [relevant_filtered_docs |-> docs,
     relevant_intermediate_answers |-> answers]

RECURSIVE relevant_from(_, _, _)
relevant_from(docs, answers, ia) ==
    IF ia > Len(answers) THEN <<>>
    ELSE (IF check_intermediate_answer(answers[ia])
          THEN << <<docs[ia], answers[ia]>> >>
          ELSE <<>>) \o relevant_from(docs, answers, ia + 1)

\* The two relevant_* lists of the output.
relevant_lists(docs, answers) ==
    LET pairs == relevant_from(docs, answers, 1) IN
    [relevant_filtered_docs |-> [k \in 1..Len(pairs) |-> pairs[k][1]],
     relevant_intermediate_answers |->
        [k \in 1..Len(pairs) |-> pairs[k][2]]]

(***************************************************************************)
(* The answers of the models: the answer about the document, or the batch, *)
(* at position i is a text of its own, or the sentinel.                    *)
(***************************************************************************)
MaxAnswers == 12

AnswerTag ==
    <<"a", "b", "c", "d", "e", "f", "g", "h", "i", "j", "k", "l", "m", "n",
      "o", "p">>

AnswerTexts(i) == {<<AnswerTag[i]>>, IRRELEVANT}

AnswerLists(n) ==
    {[i \in 1..n |-> IF isUsable[i] THEN <<AnswerTag[i]>> ELSE IRRELEVANT] :
        isUsable \in [1..n -> BOOLEAN]}

(***************************************************************************)
(* SpecReduce: _query from the return of rag_chain.invoke to its output:   *)
(* the passes of the while loop, then the final reduction and the output.  *)
(***************************************************************************)
InitReduce ==
    /\ IdleFirst /\ IdleCleanup /\ IdleRecursion /\ IdleConc /\ IdleEval
    /\ IdleThird
    /\ \E n \in 1..MaxAnswers :
        /\ out_filtered_docs = [i \in 1..n |-> i]
        /\ doc_answers \in AnswerLists(n)
    /\ intermediate_answers = doc_answers
    /\ all_intermediate_answers = <<doc_answers>>
    /\ combine_calls = <<>>
    /\ n_passes = 0
    /\ reduce_out = NotCalled

\* One iteration of the while loop: the batches, and one answer per batch.
BatchReduce ==
    /\ reduce_out = NotCalled
    /\ Len(intermediate_answers) > batch_size
    /\ LET batches == make_batches(intermediate_answers) IN
        /\ combine_calls' = combine_calls \o
              [b \in 1..Len(batches) |-> CombineCall(batches[b], TRUE)]
        /\ intermediate_answers' \in AnswerLists(Len(batches))
    /\ n_passes' = n_passes + 1
    /\ UNCHANGED <<out_filtered_docs, doc_answers, all_intermediate_answers,
                   reduce_out>>
    /\ UNCHANGED <<firstVars, cleanupVars, recursionVars, concVars, evalVars,
                   thirdVars>>

\* The statements after the while loop.
FinalReduce ==
    /\ reduce_out = NotCalled
    /\ Len(intermediate_answers) <= batch_size
    /\ all_intermediate_answers' =
          Append(all_intermediate_answers, intermediate_answers)
    /\ combine_calls' =
          Append(combine_calls, CombineCall(intermediate_answers, FALSE))
    /\ \E final_answer \in AnswerTexts(1) :
          reduce_out' = Return(
              [final_answer |-> final_answer,
               all_intermediate_answeers |-> all_intermediate_answers',
               intermediate_answers |-> doc_answers,
               filtered_docs |-> out_filtered_docs]
              @@ relevant_lists(out_filtered_docs, doc_answers))
    /\ UNCHANGED <<out_filtered_docs, doc_answers, intermediate_answers,
                   n_passes>>
    /\ UNCHANGED <<firstVars, cleanupVars, recursionVars, concVars, evalVars,
                   thirdVars>>

NextReduce == BatchReduce \/ FinalReduce

SpecReduce == InitReduce /\ [][NextReduce]_vars

(***************************************************************************)
(* DocToolsLLM.py: summarize_documents, the cleanup of the summary text    *)
(* before a recursive pass. A text is a sequence of characters.            *)
(***************************************************************************)
\* str.rstrip(): the text without its trailing whitespace.
rstrip(s) ==
    LET keep == {i \in 1..Len(s) : ~isspace(s[i])}
        hi == CHOOSE i \in keep : \A j \in keep : j <= i
    IN  IF keep = {} THEN <<>> ELSE SubSeq(s, 1, hi)

\* sub in s
contains(s, sub) ==
    \E i \in 1..(Len(s) - Len(sub) + 1) : SubSeq(s, i, i + Len(sub) - 1) = sub

startswith(s, prefix) ==
    Len(s) >= Len(prefix) /\ SubSeq(s, 1, Len(prefix)) = prefix

\* str.split("\n")
RECURSIVE split_lines(_)
split_lines(text) ==
    IF \A i \in 1..Len(text) : text[i] # "\n" THEN <<text>>
    ELSE LET nl == CHOOSE i \in 1..Len(text) :
                      /\ text[i] = "\n"
                      /\ \A j \in 1..(i - 1) : text[j] # "\n"
         IN <<SubSeq(text, 1, nl - 1)>>
            \o split_lines(SubSeq(text, nl + 1, Len(text)))

\* "\n".join(lines)
RECURSIVE join_lines(_)
join_lines(lines) ==
    IF lines = <<>> THEN <<>>
    ELSE IF Len(lines) = 1 THEN lines[1]
    ELSE lines[1] \o <<"\n">> \o join_lines(Tail(lines))

ChunkSeparator ==
    <<"-", " ", "-", "-", "-">>

ChunkMarker ==
    <<"-", " ", "C", "h", "u", "n", "k", " ">>

RecursionBlock ==
    <<"-", " ", "B", "E", "F", "O", "R", "E", " ", "R", "E", "C", "U", "R",
      "S", "I", "O", "N", " ", "#">>

RecursionBlockAsserted ==
    <<"-", " ", "B", "E", "F", "O", "R", "E", " ", "R", "E", "C", "U", "R",
      "S", "I", "O", "N", " ", "#", " ">>

\* re.search(r"- Chunk \d+/\d+", l)
search_chunk(l) ==
    \E i \in 1..Len(l) : \E slash \in (i + 1)..(Len(l) - 1) :
        /\ startswith(SubSeq(l, i, Len(l)), ChunkMarker)
        /\ slash > i + Len(ChunkMarker)
        /\ \A d \in (i + Len(ChunkMarker))..(slash - 1) : isdigit(l[d])
        /\ l[slash] = "/"
        /\ isdigit(l[slash + 1])

\* The None a line of sp is set to: no line is equal to it.
NoneLine == <<"None">>

\* The for loop over the lines: the lines of sp from position i on.
RECURSIVE mark_lines(_, _)
mark_lines(sp, i) ==
    IF i > Len(sp) THEN <<>>
    ELSE IF strip(sp[i]) = ChunkSeparator
         THEN <<NoneLine>> \o mark_lines(sp, i + 1)
    ELSE IF search_chunk(sp[i])
         THEN <<NoneLine>> \o mark_lines(sp, i + 1)
    ELSE IF startswith(strip(sp[i]), RecursionBlock)
         THEN [new_i \in 1..(Len(sp) - i + 1) |-> NoneLine]
    ELSE <<sp[i]>> \o mark_lines(sp, i + 1)

\* The truth value of a line, or of None.
truthy(s) == s # NoneLine /\ s # <<>>

\* The text the cleanup assigns to summary_text.
cleanup(text) ==
    LET kept == SelectSeq(mark_lines(split_lines(text), 1), truthy)
    IN  join_lines([k \in 1..Len(kept) |-> rstrip(kept[k])])

\* The three assert statements after the cleanup.
cleanup_asserts(text) ==
    /\ ~contains(text, ChunkSeparator)
    /\ ~contains(text, ChunkMarker)
    /\ ~contains(text, RecursionBlockAsserted)

\* The cleanup and its assert statements.
clean_pass(text) ==
    IF cleanup_asserts(cleanup(text)) THEN Return(cleanup(text))
    ELSE Raise(AssertionError)

(***************************************************************************)
(* The summary texts: lines of the kinds do_summarize and the model write. *)
(***************************************************************************)
MaxLines == 3

SummaryLines ==
    {ChunkSeparator,
     <<"-", " ", "C", "h", "u", "n", "k", " ", "1", "/", "2">>,
     <<" ", "-", " ", "B", "E", "F", "O", "R", "E", " ", "R", "E", "C", "U",
       "R", "S", "I", "O", "N", " ", "#", "1">>,
     <<>>,
     <<" ">>,
     <<"-", " ", "a">>,
     <<" ", " ", "-", " ", "b", " ">>,
     <<"-", " ", "C", "h", "u", "n", "k", " ", "x">>}

SummaryTexts == {join_lines(lines) : lines \in SeqsUpTo(SummaryLines, MaxLines)}

(***************************************************************************)
(* SpecCleanup: the cleanup applied to a summary text, and then to its own *)
(* result.                                                                 *)
(***************************************************************************)
InitCleanup ==
    /\ IdleFirst /\ IdleReduce /\ IdleRecursion /\ IdleConc /\ IdleEval
    /\ IdleThird
    /\ cleanup_in \in SummaryTexts
    /\ cleaned_once = NotCalled
    /\ cleaned_twice = NotCalled

CleanOnce ==
    /\ cleaned_once = NotCalled
    /\ cleaned_once' = clean_pass(cleanup_in)
    /\ UNCHANGED <<cleanup_in, cleaned_twice>>
    /\ UNCHANGED <<firstVars, reduceVars, recursionVars, concVars, evalVars,
                   thirdVars>>

CleanTwice ==
    /\ cleaned_once.kind = "return"
    /\ cleaned_twice = NotCalled
    /\ cleaned_twice' = clean_pass(cleaned_once.val)
    /\ UNCHANGED <<cleanup_in, cleaned_once>>
    /\ UNCHANGED <<firstVars, reduceVars, recursionVars, concVars, evalVars,
                   thirdVars>>

NextCleanup == CleanOnce \/ CleanTwice

SpecCleanup == InitCleanup /\ [][NextCleanup]_vars

(***************************************************************************)
(* DocToolsLLM.py: summarize_documents, the recursive passes. The token    *)
(* check of the re-chunked text and the summaries and token counts that    *)
(* do_summarize returns are inputs.                                        *)
(***************************************************************************)
\* The dict the function returns.
summarize_result(n_recursion, text, summaries, tokens) ==
    [summary |-> IF n_recursion > 0 THEN text ELSE summaries[0],
     doc_total_tokens |-> tokens]

RecursionTexts ==
    {<<"-", " ", "a">>,
     <<"-", " ", "C", "h", "u", "n", "k", " ", "1", "/", "2", "\n",
       "-", " ", "a">>,
     <<"-", " ", "C", "h", "u", "n", "k", " ", "x">>}

PassTokens == {1, 2}

(***************************************************************************)
(* SpecRecursion: summarize_documents from the first summary on: the       *)
(* iterations of the for loop, each with one of its three ends, then the   *)
(* return.                                                                 *)
(***************************************************************************)
InitRecursion ==
    /\ IdleParse /\ IdleAnswer /\ IdleFilter /\ IdleDedup
    /\ IdleReduce /\ IdleCleanup /\ IdleConc /\ IdleEval
    /\ IdleThird
    /\ modelname = "openai/gpt-4o"
    /\ api_base = NoApiBase
    /\ llm_price = <<0, 0>>
    /\ full_tkn = 0
    /\ dollar_limit = 0
    /\ budget_log = "none"
    /\ summary_out = NotCalled
    /\ llm_calls = 0
    /\ summary_n_recursion \in 0..MaxRecursion
    /\ \E summary \in RecursionTexts :
        /\ summary_text = summary
        /\ recursive_summaries = (0 :> summary)
    /\ \E tokens \in PassTokens :
        /\ doc_total_tokens = tokens
        /\ pass_tokens = <<tokens>>
    /\ summarize_calls = <<0>>
    /\ n_recur = 0
    /\ n_recursion_done = 0
    /\ stopped_at = 0
    /\ summarize_out = NotCalled

\* The for loop has an iteration to run.
InLoop ==
    /\ summarize_out = NotCalled
    /\ stopped_at = 0
    /\ n_recur < summary_n_recursion

\* An iteration in which an assert statement after the cleanup fails.
CleanupFails ==
    /\ InLoop
    /\ clean_pass(summary_text).kind = "raise"
    /\ n_recur' = n_recur + 1
    /\ summary_text' = cleanup(summary_text)
    /\ summarize_out' = clean_pass(summary_text)
    /\ UNCHANGED <<n_recursion_done, recursive_summaries, doc_total_tokens,
                   pass_tokens, summarize_calls, stopped_at>>
    /\ UNCHANGED <<firstVars, reduceVars, cleanupVars, concVars, evalVars,
                   thirdVars>>

\* An iteration in which check_docs_tkn_length raises, with the except
\* clause left out.
TokenCheckFailsUncaught ==
    /\ InLoop
    /\ clean_pass(summary_text).kind = "return"
    /\ n_recur' = n_recur + 1
    /\ summary_text' = cleanup(summary_text)
    /\ stopped_at' = n_recur'
    /\ summarize_out' = Raise(PlainException)
    /\ UNCHANGED <<n_recursion_done, recursive_summaries, doc_total_tokens,
                   pass_tokens, summarize_calls>>
    /\ UNCHANGED <<firstVars, reduceVars, cleanupVars, concVars, evalVars,
                   thirdVars>>

\* An iteration in which check_docs_tkn_length raises: the loop is left.
TokenCheckFails ==
    /\ InLoop
    /\ clean_pass(summary_text).kind = "return"
    /\ n_recur' = n_recur + 1
    /\ summary_text' = cleanup(summary_text)
    /\ stopped_at' = n_recur'
    /\ UNCHANGED <<n_recursion_done, recursive_summaries, doc_total_tokens,
                   pass_tokens, summarize_calls, summarize_out>>
    /\ UNCHANGED <<firstVars, reduceVars, cleanupVars, concVars, evalVars,
                   thirdVars>>

\* An iteration that summarizes again; the cleanup of the new summary, made
\* for its reading length, has the same assert statements.
RecursivePass ==
    /\ InLoop
    /\ clean_pass(summary_text).kind = "return"
    /\ n_recur' = n_recur + 1
    /\ n_recursion_done' = n_recursion_done + 1
    /\ \E new_text \in RecursionTexts : \E new_doc_total_tokens \in PassTokens :
        /\ summary_text' = new_text
        /\ doc_total_tokens' = doc_total_tokens + new_doc_total_tokens
        /\ pass_tokens' = Append(pass_tokens, new_doc_total_tokens)
        /\ recursive_summaries' =
              (n_recursion_done' :> new_text) @@ recursive_summaries
        /\ summarize_out' =
              IF clean_pass(new_text).kind = "raise"
              THEN clean_pass(new_text)
              ELSE summarize_out
    /\ summarize_calls' = Append(summarize_calls, n_recur')
    /\ UNCHANGED stopped_at
    /\ UNCHANGED <<firstVars, reduceVars, cleanupVars, concVars, evalVars,
                   thirdVars>>

\* The statements after the for loop.
ReturnSummary ==
    /\ summarize_out = NotCalled
    /\ stopped_at # 0 \/ n_recur = summary_n_recursion
    /\ summarize_out' = Return(summarize_result(summary_n_recursion,
              summary_text, recursive_summaries, doc_total_tokens))
    /\ UNCHANGED <<summary_text, n_recur, n_recursion_done,
                   recursive_summaries, doc_total_tokens, pass_tokens,
                   summarize_calls, stopped_at>>
    /\ UNCHANGED <<firstVars, reduceVars, cleanupVars, concVars, evalVars,
                   thirdVars>>

NextRecursion ==
    CleanupFails \/ TokenCheckFails \/ RecursivePass \/ ReturnSummary

SpecRecursion == InitRecursion /\ [][NextRecursion]_vars

(***************************************************************************)
(* DocToolsLLM.py: _query, the calls of the models that are in flight      *)
(* while rag_chain.invoke evaluates the retrieved documents and answers    *)
(* about them. RunnableEach runs its bound chain on the inputs in a pool   *)
(* of max_concurrency workers, or of the pool's own default number of      *)
(* workers when its config has no max_concurrency.                         *)
(***************************************************************************)
\* multi["max_concurrency"]
max_concurrency(dbg) == IF dbg THEN 1 ELSE 50

\* The calls one run of evaluate_doc_chain has in flight at once: one call
\* of _generate, or the coroutines given together to asyncio.gather.
eval_fanout(has_n) ==
    IF has_n \/ query_eval_check_number = 1 THEN 1
    ELSE query_eval_check_number

RECURSIVE sum_pending(_)
sum_pending(pending) ==
    IF pending = <<>> THEN 0 ELSE Head(pending) + sum_pending(Tail(pending))

Running(status) == {i \in 1..Len(status) : status[i] = "running"}

\* The calls of the models in flight.
in_flight ==
    sum_pending(eval_pending) + Cardinality(Running(answer_status))

MaxConcurrentDocs == 3

\* The workers of a pool made without max_concurrency.
DefaultWorkers == 2

(***************************************************************************)
(* SpecConc: rag_chain.invoke from the retrieved documents on: every       *)
(* document is evaluated, then every document gets its answer.             *)
(***************************************************************************)
InitConc ==
    /\ IdleFirst /\ IdleReduce /\ IdleCleanup /\ IdleRecursion /\ IdleEval
    /\ IdleThird
    /\ debug \in BOOLEAN
    /\ conc_has_n \in BOOLEAN
    /\ \E n \in 1..MaxConcurrentDocs :
        /\ eval_status = [i \in 1..n |-> "waiting"]
        /\ eval_pending = [i \in 1..n |-> 0]
        /\ answer_status = [i \in 1..n |-> "waiting"]

\* A worker of the first RunnableEach takes a document: evaluate_doc_chain
\* sends its calls.
StartEvaluation ==
    /\ \E i \in 1..Len(eval_status) :
        /\ eval_status[i] = "waiting"
        /\ Cardinality(Running(eval_status)) < max_concurrency(debug)
        /\ eval_status' = [eval_status EXCEPT ![i] = "running"]
        /\ eval_pending' = [eval_pending EXCEPT ![i] = eval_fanout(conc_has_n)]
    /\ UNCHANGED <<debug, conc_has_n, answer_status>>
    /\ UNCHANGED <<firstVars, reduceVars, cleanupVars, recursionVars, evalVars,
                   thirdVars>>

\* One call of the judge model returns; evaluate_doc_chain returns with the
\* last of its calls.
EvalCallReturns ==
    /\ \E i \in 1..Len(eval_status) :
        /\ eval_status[i] = "running"
        /\ eval_pending' = [eval_pending EXCEPT ![i] = @ - 1]
        /\ eval_status' =
              [eval_status EXCEPT
                  ![i] = IF eval_pending[i] = 1 THEN "done" ELSE @]
    /\ UNCHANGED <<debug, conc_has_n, answer_status>>
    /\ UNCHANGED <<firstVars, reduceVars, cleanupVars, recursionVars, evalVars,
                   thirdVars>>

\* A worker of the second RunnableEach takes a document:
\* answer_each_doc_chain calls the model.
StartAnswer ==
    /\ \A i \in 1..Len(eval_status) : eval_status[i] = "done"
    /\ \E i \in 1..Len(answer_status) :
        /\ answer_status[i] = "waiting"
        /\ Cardinality(Running(answer_status)) < DefaultWorkers
        /\ answer_status' = [answer_status EXCEPT ![i] = "running"]
    /\ UNCHANGED <<debug, conc_has_n, eval_status, eval_pending>>
    /\ UNCHANGED <<firstVars, reduceVars, cleanupVars, recursionVars, evalVars,
                   thirdVars>>

AnswerReturns ==
    /\ \E i \in 1..Len(answer_status) :
        /\ answer_status[i] = "running"
        /\ answer_status' = [answer_status EXCEPT ![i] = "done"]
    /\ UNCHANGED <<debug, conc_has_n, eval_status, eval_pending>>
    /\ UNCHANGED <<firstVars, reduceVars, cleanupVars, recursionVars, evalVars,
                   thirdVars>>

NextConc ==
    StartEvaluation \/ EvalCallReturns \/ StartAnswer \/ AnswerReturns

SpecConc == InitConc /\ [][NextConc]_vars

(***************************************************************************)
(* DocToolsLLM.py: evaluate_doc_chain of the query task. A generation is   *)
(* its text and its finish_reason. What the backend answers is the list of *)
(* generations of the one call of _generate, or the list, one per call of  *)
(* _agenerate, of the lists of generations.                                *)
(***************************************************************************)
NameError == "NameError"

Generation(text, finish_reason) ==
    [text |-> text, finish_reason |-> finish_reason]

\* The list of the parsed outputs, or the first exception of the parser.
RECURSIVE parse_all(_)
parse_all(outputs) ==
    IF outputs = <<>> THEN Return(<<>>)
    ELSE LET first == parse_eval_output(Head(outputs))
             rest == parse_all(Tail(outputs))
         IN IF first.kind = "raise" THEN first
            ELSE IF rest.kind = "raise" THEN rest
            ELSE Return(<<first.val>> \o rest.val)

\* The for loop over outs, from the call at position i on: the exception
\* of the first assert statement that fails, or the texts.
RECURSIVE collect_outs(_, _)
collect_outs(outs, i) ==
    IF i > Len(outs) THEN Return(<<>>)
    ELSE IF Len(outs[i]) # 1 THEN Raise(AssertionError)
    ELSE IF outs[i][1].finish_reason # "stop" THEN Raise(NameError)
    ELSE LET rest == collect_outs(outs, i + 1) IN
         IF rest.kind = "raise" THEN rest
         ELSE Return(<<outs[i][1].text>> \o rest.val)

\* The end of the function without its assert statement.
check_number_skipped(parsed) == parsed

\* The end of the function: the assert statement on the number of outputs.
check_number(parsed) ==
    IF parsed.kind = "raise" THEN parsed
    ELSE IF Len(parsed.val) # query_eval_check_number
         THEN Raise(AssertionError)
    ELSE parsed

\* The branch of the one call of _generate with n completions.
evaluate_generate(generations) ==
    IF \E g \in 1..Len(generations) : generations[g].finish_reason # "stop"
    THEN Raise(AssertionError)
    ELSE IF generations = <<>> THEN Raise(AssertionError)
    ELSE parse_all([g \in 1..Len(generations) |-> generations[g].text])

\* The branch of the query_eval_check_number calls of _agenerate.
evaluate_agenerate(outs) ==
    LET outputs == collect_outs(outs, 1) IN
    IF outputs.kind = "raise" THEN outputs
    ELSE IF outputs.val = <<>> THEN Raise(AssertionError)
    ELSE parse_all(outputs.val)

single_call(has_n) == has_n \/ query_eval_check_number = 1

evaluate_doc_chain(has_n, response) ==
    IF single_call(has_n)
    THEN check_number(evaluate_generate(response))
    ELSE check_number(evaluate_agenerate(response))

MaxGenerations == 4

MaxCallGenerations == 2

Generations ==
    {Generation(<<"0">>, "stop"), Generation(<<"1">>, "stop"),
     Generation(<<"x">>, "stop"), Generation(<<"1">>, "length")}

\* What the backend can answer.
Responses(has_n) ==
    IF single_call(has_n)
    THEN SeqsUpTo(Generations, MaxGenerations)
    ELSE [1..query_eval_check_number ->
              SeqsUpTo(Generations, MaxCallGenerations)]

(***************************************************************************)
(* SpecEval: one run of evaluate_doc_chain on one document.                *)
(***************************************************************************)
InitEval ==
    /\ IdleFirst /\ IdleReduce /\ IdleCleanup /\ IdleRecursion /\ IdleConc
    /\ IdleThird
    /\ eval_has_n \in BOOLEAN
    /\ eval_response \in Responses(eval_has_n)
    /\ eval_out = NotCalled
    /\ eval_calls = 0

EvaluateDocChain ==
    /\ eval_out = NotCalled
    /\ eval_calls' =
          IF single_call(eval_has_n) THEN 1 ELSE query_eval_check_number
    /\ eval_out' = evaluate_doc_chain(eval_has_n, eval_response)
    /\ UNCHANGED <<eval_has_n, eval_response>>
    /\ UNCHANGED <<firstVars, reduceVars, cleanupVars, recursionVars,
                   concVars,
                   thirdVars>>

NextEval == EvaluateDocChain

SpecEval == InitEval /\ [][NextEval]_vars

(***************************************************************************)
(* DocToolsLLM.py: the constructor from the check of its arguments to the  *)
(* query loop, and the start of _query: the validation of the retriever    *)
(* setting, the selection of the retrievers and the split of the query.    *)
(* Texts are sequences of characters.                                      *)
(***************************************************************************)
\* s.replace(old, new), old not empty
RECURSIVE replace(_, _, _)
replace(s, old, new) ==
    IF Len(s) < Len(old) THEN s
    ELSE IF startswith(s, old)
         THEN new \o replace(SubSeq(s, Len(old) + 1, Len(s)), old, new)
    ELSE <<s[1]>> \o replace(Tail(s), old, new)

\* s.find(sub), counted from 1; 0 when sub is not in s
find(s, sub) ==
    IF ~contains(s, sub) THEN 0
    ELSE CHOOSE i \in 1..(Len(s) - Len(sub) + 1) :
            /\ SubSeq(s, i, i + Len(sub) - 1) = sub
            /\ \A j \in 1..(i - 1) : SubSeq(s, j, j + Len(sub) - 1) # sub

\* s.split(sep), sep not empty
RECURSIVE split(_, _)
split(s, sep) ==
    IF ~contains(s, sep) THEN <<s>>
    ELSE <<SubSeq(s, 1, find(s, sep) - 1)>>
         \o split(SubSeq(s, find(s, sep) + Len(sep), Len(s)), sep)

UpperCase ==
    <<"A", "B", "C", "D", "E", "F", "G", "H", "I", "J", "K", "L", "M",
      "N", "O", "P", "Q", "R", "S", "T", "U", "V", "W", "X", "Y", "Z">>

LowerCase ==
    <<"a", "b", "c", "d", "e", "f", "g", "h", "i", "j", "k", "l", "m",
      "n", "o", "p", "q", "r", "s", "t", "u", "v", "w", "x", "y", "z">>

\* s.lower()
lower(s) ==
    [i \in 1..Len(s) |->
        IF \E k \in 1..Len(UpperCase) : UpperCase[k] = s[i]
        THEN LowerCase[CHOOSE k \in 1..Len(UpperCase) : UpperCase[k] = s[i]]
        ELSE s[i]]

SystemExit == "SystemExit"

T_query == <<"q", "u", "e", "r", "y">>
T_search == <<"s", "e", "a", "r", "c", "h">>
T_summary == <<"s", "u", "m", "m", "a", "r", "y">>
T_summarize == <<"s", "u", "m", "m", "a", "r", "i", "z", "e">>
T_summarize_then_query ==
    <<"s", "u", "m", "m", "a", "r", "i", "z", "e", "_", "t", "h", "e", "n", "_", "q", "u", "e", "r", "y">>
T_summary_then_query ==
    <<"s", "u", "m", "m", "a", "r", "y", "_", "t", "h", "e", "n", "_", "q", "u", "e", "r", "y">>
T_testing == <<"t", "e", "s", "t", "i", "n", "g">>
T_default == <<"d", "e", "f", "a", "u", "l", "t">>
T_hyde == <<"h", "y", "d", "e">>
T_knn == <<"k", "n", "n">>
T_svm == <<"s", "v", "m">>
T_parent == <<"p", "a", "r", "e", "n", "t">>
T_underscore == <<"_">>
T_delimiter == <<" ", "/", "/", " ">>

\* The task after line 156.
normalized_task(t) == replace(t, T_summary, T_summarize)

\* The list of the assert of line 157.
ValidTasks == {T_query, T_search, T_summarize, T_summarize_then_query}

\* The list of lines 410 and 158.
SummaryTasks == {T_summarize, T_summarize_then_query}

\* The test of line 413.
switches_to_query(t) == t = T_summary_then_query

\* The list of the assert of line 421.
QueryTasks == {T_query, T_search, T_summary_then_query}

\* self.query_retrievers, line 249.
stored_retrievers(name, setting) ==
    IF ~contains(name, T_testing) THEN setting
    ELSE replace(setting, T_hyde, <<>>)

\* The list of the assert of lines 912-915.
RetrieverNames == {T_default, T_hyde, T_knn, T_svm, T_parent}

\* The assert of lines 912-915 with any() where the code has all().
valid_retrievers_any(setting) ==
    \E i \in 1..Len(split(setting, T_underscore)) :
        split(setting, T_underscore)[i] \in RetrieverNames

\* The condition of the assert of lines 912-915.
valid_retrievers(setting) ==
    \A i \in 1..Len(split(setting, T_underscore)) :
        split(setting, T_underscore)[i] \in RetrieverNames

\* The retrievers in the order in which lines 916-969 test for them.
RetrieverOrder == <<T_hyde, T_knn, T_svm, T_parent, T_default>>

\* The local retrievers at line 971: one retriever for each name that is in
\* the lowercased setting.
RECURSIVE select_from(_, _)
select_from(names, setting) ==
    IF names = <<>> THEN <<>>
    ELSE (IF contains(lower(setting), Head(names))
          THEN <<Head(names)>> ELSE <<>>)
         \o select_from(Tail(names), setting)

select_retrievers(setting) == select_from(RetrieverOrder, setting)

\* Lines 987-993 with the two halves taken without the assert of line 989.
split_query_unchecked(q) ==
    IF contains(q, T_delimiter)
    THEN Return(<<strip(split(q, T_delimiter)[1]),
                  strip(split(q, T_delimiter)[2])>>)
    ELSE Return(<<q, q>>)

\* Lines 987-993: the pair query_fe, query_an, or the failure of the assert.
split_query(q) ==
    IF contains(q, T_delimiter)
    THEN IF Len(split(q, T_delimiter)) # 2 THEN Raise(AssertionError)
         ELSE Return(<<strip(split(q, T_delimiter)[1]),
                       strip(split(q, T_delimiter)[2])>>)
    ELSE Return(<<q, q>>)

\* The values given for the argument task.
TaskArgs ==
    {T_query, T_search, T_summary, T_summarize, T_summarize_then_query,
     T_summary_then_query, <<"s", "u", "m", "u", "p">>}

\* The values given for the argument modelname.
ModelNames ==
    {<<"o", "p", "e", "n", "a", "i", "/", "g", "p", "t", "-", "4", "o">>,
     <<"t", "e", "s", "t", "i", "n", "g", "/", "t", "e", "s", "t", "i", "n", "g">>}

\* The values given for the argument query_retrievers.
RetrieverSettings ==
    {T_default, T_hyde,
     <<"d", "e", "f", "a", "u", "l", "t", "_", "h", "y", "d", "e">>,
     <<"h", "y", "d", "e", "_", "d", "e", "f", "a", "u", "l", "t">>,
     <<"k", "n", "n", "_", "h", "y", "d", "e", "_", "s", "v", "m">>,
     <<"k", "n", "n", "_", "s", "v", "m">>,
     <<"p", "a", "r", "e", "n", "t">>,
     <<"D", "e", "f", "a", "u", "l", "t">>,
     <<"d", "e", "f", "a", "u", "l", "t", "_", "b", "m", "2", "5">>,
     <<"d", "e", "f", "a", "u", "l", "t", "_">>,
     <<"d", "e", "f", "a", "u", "l", "t", "h", "y", "d", "e">>,
     <<>>}

\* The questions asked.
Queries ==
    {<<"a">>,
     <<"a", " ", "/", "/", " ", "b">>,
     <<" ", "a", " ", "/", "/", " ", " ", "b", " ">>,
     <<"a", "/", "/", "b">>,
     <<"a", " ", "/", "/", " ", "b", " ", "/", "/", " ", "c">>,
     <<"a", " ", "/", "/", " ", "/", "/", " ", "b">>,
     <<" ", "/", "/", " ">>}

MaxQueries == 2

ConstructEvent(n, name) == [kind |-> "construct", n |-> n, what |-> name]

RetrieveEvent(n, q) == [kind |-> "retrieve", n |-> n, what |-> q]

AnswerEvent(n, q) == [kind |-> "answer", n |-> n, what |-> q]

SummaryEvent == [kind |-> "summary", n |-> 0, what |-> <<>>]

InitSession ==
    /\ IdleFirst /\ IdleSecond /\ IdleChain /\ IdleLedger /\ IdleRace
    /\ args \in [task : TaskArgs, modelname : ModelNames,
                 query_retrievers : RetrieverSettings]
    /\ task = <<>>
    /\ query_retrievers = <<>>
    /\ interaction_settings = <<>>
    /\ query = <<>>
    /\ retrievers = <<>>
    /\ query_fe = <<>>
    /\ query_an = <<>>
    /\ events = <<>>
    /\ n_queries = 0
    /\ failed_line = 0
    /\ session_pc = "new"
    /\ session_out = NotCalled

\* __init__ up to the loading of the documents: lines 156-249.
Construct ==
    /\ session_pc = "new"
    /\ IF normalized_task(args.task) \notin ValidTasks
       THEN /\ session_out' = Raise(AssertionError)
            /\ failed_line' = 157
            /\ session_pc' = "failed"
            /\ UNCHANGED <<task, query_retrievers>>
       ELSE /\ task' = normalized_task(args.task)
            /\ query_retrievers' =
                  stored_retrievers(args.modelname, args.query_retrievers)
            /\ session_pc' = "constructed"
            /\ UNCHANGED <<session_out, failed_line>>
    /\ UNCHANGED <<args, interaction_settings, query, retrievers, query_fe,
                   query_an, events, n_queries>>
    /\ UNCHANGED <<firstVars, secondVars, chainVars, ledgerVars, raceVars>>

\* __init__, lines 410-419: the summary task and what follows it.
SummaryTask ==
    /\ session_pc = "constructed"
    /\ task \in SummaryTasks
    /\ events' = Append(events, SummaryEvent)
    /\ IF switches_to_query(task)
       THEN /\ session_pc' = "switched"
            /\ UNCHANGED session_out
       ELSE /\ session_pc' = "exited"
            /\ session_out' = Raise(SystemExit)
    /\ UNCHANGED <<args, task, query_retrievers, interaction_settings, query,
                   retrievers, query_fe, query_an, n_queries, failed_line>>
    /\ UNCHANGED <<firstVars, secondVars, chainVars, ledgerVars, raceVars>>

\* __init__, lines 421-422, and prepare_query_task.
PrepareQueryTask ==
    /\ \/ session_pc = "switched"
       \/ session_pc = "constructed" /\ task \notin SummaryTasks
    /\ IF task \notin QueryTasks
       THEN /\ session_out' = Raise(AssertionError)
            /\ failed_line' = 421
            /\ session_pc' = "failed"
            /\ UNCHANGED interaction_settings
       ELSE /\ interaction_settings' = query_retrievers
            /\ session_pc' = "ready"
            /\ UNCHANGED <<session_out, failed_line>>
    /\ UNCHANGED <<args, task, query_retrievers, query, retrievers, query_fe,
                   query_an, events, n_queries>>
    /\ UNCHANGED <<firstVars, secondVars, chainVars, ledgerVars, raceVars>>

\* The events of a call of _query that gets as far as line number upto:
\* the retrievers built at lines 916-969, then the retrieval with query_fe
\* and the answers to query_an of the chain invoked at line 1360.
query_events(n, built, halves, upto) ==
    (IF upto >= 971
     THEN [i \in 1..Len(built) |-> ConstructEvent(n, built[i])] ELSE <<>>)
    \o (IF upto >= 1360
        THEN <<RetrieveEvent(n, halves[1]), AnswerEvent(n, halves[2])>>
        ELSE <<>>)

\* One call of _query with a question, from line 903 to the invocation of
\* the chain.
Query ==
    /\ session_pc = "ready"
    /\ n_queries < MaxQueries
    /\ \E q \in Queries :
        LET n == n_queries + 1
            setting == interaction_settings
            built == select_retrievers(setting)
            halves == split_query(q)
            upto == IF ~valid_retrievers(setting) THEN 912
                    ELSE IF built = <<>> THEN 971
                    ELSE IF halves = Raise(AssertionError) THEN 989
                    ELSE 1360
        IN  /\ query' = q
            /\ n_queries' = n
            /\ retrievers' = IF upto >= 971 THEN built ELSE <<>>
            /\ query_fe' = IF upto = 1360 THEN halves.val[1] ELSE <<>>
            /\ query_an' = IF upto = 1360 THEN halves.val[2] ELSE <<>>
            /\ events' = events \o
                  query_events(n, built,
                               IF upto = 1360 THEN halves.val ELSE <<>>, upto)
            /\ IF upto = 1360
               THEN /\ session_out' = Return(None)
                    /\ UNCHANGED <<failed_line, session_pc>>
               ELSE /\ session_out' = Raise(AssertionError)
                    /\ failed_line' = upto
                    /\ session_pc' = "failed"
    /\ UNCHANGED <<args, task, query_retrievers, interaction_settings>>
    /\ UNCHANGED <<firstVars, secondVars, chainVars, ledgerVars, raceVars>>

NextSession == Construct \/ SummaryTask \/ PrepareQueryTask \/ Query

SpecSession == InitSession /\ [][NextSession]_vars

(***************************************************************************)
(* DocToolsLLM.py: rag_chain of _query, step by step: retrieve_documents,  *)
(* the evaluations RunnableEach runs side by side, refilter_docs, then the *)
(* answers RunnableEach asks for, and the try statement around the chain.  *)
(* A document is its index in unfiltered_docs.                             *)
(***************************************************************************)
MaxChainDocs == 3

\* The votes evaluate_doc_chain returns for one document.
ParsedVotes == [1..query_eval_check_number -> {<<"0">>, <<"1">>}]

\* How one evaluation ends: with its votes, or with the error of
\* parse_eval_output.
EvaluationOutcomes ==
    {Return(EvalList(v)) : v \in ParsedVotes}
        \cup {Raise(InvalidDocEvaluationByWeakLLM)}

\* The evaluation has not returned yet.
Pending == [kind |-> "pending"]

\* The inputs of answer_all_docs, taken from unfiltered_docs.
answer_inputs_unfiltered(inputs) == inputs.unfiltered_docs

\* The inputs of answer_all_docs, lines 1311-1317: one for each document of
\* filtered_docs.
answer_inputs(inputs) == inputs.filtered_docs

\* The value of the key evaluations once every evaluation has returned.
evaluations_of(outcomes) == [i \in 1..Len(outcomes) |-> outcomes[i].val]

InitChain ==
    /\ IdleFirst /\ IdleSecond /\ IdleSession /\ IdleLedger /\ IdleRace
    /\ retrieved_docs \in {[i \in 1..n |-> i] : n \in 0..MaxChainDocs}
    /\ doc_evaluations = [i \in 1..Len(retrieved_docs) |-> Pending]
    /\ refiltered = NotCalled
    /\ answer_calls = <<>>
    /\ combine_started = FALSE
    /\ chain_out = NotCalled

\* One evaluation of RunnableEach(bound=evaluate_doc_chain) returns or
\* raises, lines 1281-1292.
EvaluateDoc ==
    /\ refiltered = NotCalled
    /\ \E i \in 1..Len(retrieved_docs) : \E outcome \in EvaluationOutcomes :
        /\ doc_evaluations[i] = Pending
        /\ doc_evaluations' = [doc_evaluations EXCEPT ![i] = outcome]
    /\ UNCHANGED <<retrieved_docs, refiltered, answer_calls, combine_started,
                   chain_out>>
    /\ UNCHANGED <<firstVars, secondVars, sessionVars, ledgerVars,
                   raceVars>>

\* The error of an evaluation leaves rag_chain.invoke; neither except
\* clause of lines 1367-1370 is for it.
EvaluationRaises ==
    /\ chain_out = NotCalled
    /\ \E i \in 1..Len(retrieved_docs) :
        /\ doc_evaluations[i].kind = "raise"
        /\ chain_out' = query_except(doc_evaluations[i].exc)
    /\ UNCHANGED <<retrieved_docs, doc_evaluations, refiltered, answer_calls,
                   combine_started>>
    /\ UNCHANGED <<firstVars, secondVars, sessionVars, ledgerVars,
                   raceVars>>

\* refilter_docs, line 1294, once RunnableEach has returned the list of
\* evaluations; what it raises goes through the except clauses.
RefilterDocuments ==
    /\ refiltered = NotCalled
    /\ chain_out = NotCalled
    /\ \A i \in 1..Len(retrieved_docs) : doc_evaluations[i].kind = "return"
    /\ refiltered' =
          refilter_docs(retrieved_docs, evaluations_of(doc_evaluations))
    /\ chain_out' = IF refiltered'.kind = "raise"
                    THEN query_except(refiltered'.exc) ELSE chain_out
    /\ UNCHANGED <<retrieved_docs, doc_evaluations, answer_calls,
                   combine_started>>
    /\ UNCHANGED <<firstVars, secondVars, sessionVars, ledgerVars,
                   raceVars>>

\* One call of RunnableEach(bound=answer_each_doc_chain), line 1319: the
\* inputs are answered side by side, each of them once.
AnswerDoc ==
    /\ refiltered.kind = "return"
    /\ chain_out = NotCalled
    /\ LET inputs == answer_inputs([filtered_docs |-> refiltered.val,
                                    unfiltered_docs |-> retrieved_docs])
       IN \E k \in 1..Len(inputs) :
            /\ \A j \in 1..Len(answer_calls) : answer_calls[j].input # k
            /\ answer_calls' =
                  Append(answer_calls, [input |-> k, doc |-> inputs[k]])
    /\ UNCHANGED <<retrieved_docs, doc_evaluations, refiltered,
                   combine_started, chain_out>>
    /\ UNCHANGED <<firstVars, secondVars, sessionVars, ledgerVars,
                   raceVars>>

\* rag_chain.invoke returns, line 1360, once every input is answered.
ChainReturns ==
    /\ refiltered.kind = "return"
    /\ chain_out = NotCalled
    /\ Len(answer_calls) =
          Len(answer_inputs([filtered_docs |-> refiltered.val,
                             unfiltered_docs |-> retrieved_docs]))
    /\ chain_out' = Answered
    /\ UNCHANGED <<retrieved_docs, doc_evaluations, refiltered, answer_calls,
                   combine_started>>
    /\ UNCHANGED <<firstVars, secondVars, sessionVars, ledgerVars,
                   raceVars>>

\* _query goes on to the reduction of lines 1372-1391, with its combine
\* calls.
StartReduction ==
    /\ chain_out = Answered
    /\ ~combine_started
    /\ combine_started' = TRUE
    /\ UNCHANGED <<retrieved_docs, doc_evaluations, refiltered, answer_calls,
                   chain_out>>
    /\ UNCHANGED <<firstVars, secondVars, sessionVars, ledgerVars,
                   raceVars>>

NextChain ==
    \/ EvaluateDoc
    \/ EvaluationRaises
    \/ RefilterDocuments
    \/ AnswerDoc
    \/ ChainReturns
    \/ StartReduction

SpecChain == InitChain /\ [][NextChain]_vars

(***************************************************************************)
(* DocToolsLLM.py: evaluate_doc_chain under eval_cache_wrapper, and the    *)
(* token counters of the callback of the judge model. The cache is keyed   *)
(* by the arguments of the function; a hit returns the stored votes        *)
(* without running the function, a miss runs it and stores what it         *)
(* returns.                                                                *)
(***************************************************************************)
\* The arguments of evaluate_doc_chain: inputs (the question and the
\* content of the document), query_nb and eval_model_name.
CacheKey(q, doc, query_nb, eval_model_name) ==
    [q |-> q, doc |-> doc, query_nb |-> query_nb,
     eval_model_name |-> eval_model_name]

CacheEntry(key, votes) == [key |-> key, votes |-> votes]

\* The votes the cache holds for the key: none or one list.
cache_lookup(cache, key) == {e.votes : e \in {c \in cache : c.key = key}}

\* Lines 1217-1220 with the wrapper that leaves the function as it is, whatever
\* no_llm_cache.
cached_votes_never(disabled, cache, key) == {}

\* Lines 1217-1220: the function is behind the cache unless no_llm_cache.
cached_votes(disabled, cache, key) ==
    IF disabled THEN {} ELSE cache_lookup(cache, key)

\* The cache with the votes stored for the key.
cache_store(cache, key, votes) ==
    {c \in cache : c.key # key} \cup {CacheEntry(key, votes)}

\* The calls of the judge model one run of the function makes.
calls_of_run(has_n) ==
    IF single_call(has_n) THEN 1 ELSE query_eval_check_number

\* Lines 1267-1269.
add_tokens(cb, new_p, new_c) ==
    [prompt_tokens |-> cb.prompt_tokens + new_p,
     completion_tokens |-> cb.completion_tokens + new_c,
     total_tokens |-> cb.total_tokens + new_p + new_c]

\* The counters after a run that ended with out: the statements of lines
\* 1267-1269 are reached only if no statement before them raised.
callback_after(cb, out, new_p, new_c) ==
    IF out.kind = "return" THEN add_tokens(cb, new_p, new_c) ELSE cb

Questions == {"q1", "q2"}

DocContents == {"d1", "d2"}

EvalModelName == "openai/gpt-3.5-turbo"

CacheKeys ==
    {CacheKey(q, d, query_eval_check_number, EvalModelName) :
        q \in Questions, d \in DocContents}

\* token_usage of one call: prompt_tokens and completion_tokens.
TokenUsages == {<<7, 1>>, <<9, 2>>}

\* What the backend answers to one run: three votes, a text that is not a
\* vote, a generation cut short, one generation too few.
LedgerGenerations ==
    {<<Generation(<<"0">>, "stop"), Generation(<<"0">>, "stop"),
       Generation(<<"0">>, "stop")>>,
     <<Generation(<<"1">>, "stop"), Generation(<<"0">>, "stop"),
       Generation(<<"1">>, "stop")>>,
     <<Generation(<<"1">>, "stop"), Generation(<<"1">>, "stop"),
       Generation(<<"1">>, "stop")>>,
     <<Generation(<<"1">>, "stop"), Generation(<<"x">>, "stop"),
       Generation(<<"0">>, "stop")>>,
     <<Generation(<<"1">>, "stop"), Generation(<<"1">>, "length"),
       Generation(<<"0">>, "stop")>>}

LedgerResponses(has_n) ==
    IF single_call(has_n)
    THEN LedgerGenerations
            \cup {<<Generation(<<"1">>, "stop"), Generation(<<"1">>, "stop")>>}
    ELSE {[i \in 1..Len(gs) |-> <<gs[i]>>] : gs \in LedgerGenerations}
            \cup {[i \in 1..query_eval_check_number |->
                      <<Generation(<<"1">>, "stop"),
                        Generation(<<"1">>, "stop")>>]}

MaxEvals == 2

InitLedger ==
    /\ IdleFirst /\ IdleSecond /\ IdleSession /\ IdleChain /\ IdleRace
    /\ no_llm_cache \in BOOLEAN
    /\ eval_llm_has_n \in BOOLEAN
    /\ doc_eval_cache = {}
    /\ callback =
          [prompt_tokens |-> 0, completion_tokens |-> 0, total_tokens |-> 0]
    /\ judge_calls = 0
    /\ last_eval = <<>>
    /\ n_evals = 0

\* One call of the wrapped evaluate_doc_chain, lines 1216-1270.
EvaluateWithCache ==
    /\ n_evals < MaxEvals
    /\ n_evals' = n_evals + 1
    /\ \E key \in CacheKeys :
       \E response \in LedgerResponses(eval_llm_has_n) :
       \E usage \in TokenUsages :
        LET cached == cached_votes(no_llm_cache, doc_eval_cache, key)
            out == evaluate_doc_chain(eval_llm_has_n, response)
            calls == calls_of_run(eval_llm_has_n)
            new_p == calls * usage[1]
            new_c == calls * usage[2]
            before == [callback |-> callback, judge_calls |-> judge_calls,
                       doc_eval_cache |-> doc_eval_cache]
        IN  IF cached # {}
            THEN /\ last_eval' =
                       [key |-> key, out |-> Return(CHOOSE v \in cached : TRUE),
                        returned_calls |-> 0, new_p |-> 0, new_c |-> 0,
                        before |-> before]
                 /\ UNCHANGED <<doc_eval_cache, callback, judge_calls>>
            ELSE /\ judge_calls' = judge_calls + calls
                 /\ callback' = callback_after(callback, out, new_p, new_c)
                 /\ doc_eval_cache' =
                       IF ~no_llm_cache /\ out.kind = "return"
                       THEN cache_store(doc_eval_cache, key, out.val)
                       ELSE doc_eval_cache
                 /\ last_eval' =
                       [key |-> key, out |-> out, returned_calls |-> calls,
                        new_p |-> new_p, new_c |-> new_c, before |-> before]
    /\ UNCHANGED <<no_llm_cache, eval_llm_has_n>>
    /\ UNCHANGED <<firstVars, secondVars, sessionVars, chainVars, raceVars>>

NextLedger == EvaluateWithCache

SpecLedger == InitLedger /\ [][NextLedger]_vars

(***************************************************************************)
(* DocToolsLLM.py: the evaluations of one query, run side by side by the   *)
(* workers of RunnableEach, each ending with the three += of lines         *)
(* 1267-1269 on the counters of the one callback. No lock is taken: a +=   *)
(* on an attribute is a read of the counter, then a write of the sum.      *)
(***************************************************************************)
RaceWorkers == 2

\* The counters in the order of lines 1267-1269.
Counters == <<"prompt_tokens", "completion_tokens", "total_tokens">>

\* What the statement on counter k adds: new_p, new_c, new_p + new_c.
increment(tokens, k) ==
    IF k = 1 THEN tokens[1]
    ELSE IF k = 2 THEN tokens[2]
    ELSE tokens[1] + tokens[2]

\* Where an evaluation is: running (before line 1267), at the read or the
\* write of counter k, returned, or failed.
At(k, phase) == [k |-> k, phase |-> phase]

InitRace ==
    /\ IdleFirst /\ IdleSecond /\ IdleSession /\ IdleChain
    /\ no_llm_cache = FALSE
    /\ eval_llm_has_n = TRUE
    /\ doc_eval_cache = {}
    /\ judge_calls = 0
    /\ last_eval = <<>>
    /\ n_evals = 0
    /\ callback_start \in
          {[prompt_tokens |-> 0, completion_tokens |-> 0, total_tokens |-> 0],
           [prompt_tokens |-> 20, completion_tokens |-> 4,
            total_tokens |-> 24]}
    /\ callback = callback_start
    /\ worker_pc = [w \in 1..RaceWorkers |-> At(0, "running")]
    /\ worker_reg = [w \in 1..RaceWorkers |-> 0]
    /\ worker_tokens \in [1..RaceWorkers -> TokenUsages]

\* Lines 1230-1265 of one evaluation: the calls return and the checks pass,
\* or a check raises and the evaluation ends there.
RunChecks ==
    /\ \E w \in 1..RaceWorkers :
        /\ worker_pc[w] = At(0, "running")
        /\ \E next \in {At(1, "read"), At(0, "failed")} :
              worker_pc' = [worker_pc EXCEPT ![w] = next]
    /\ UNCHANGED <<worker_reg, worker_tokens, callback_start>>
    /\ UNCHANGED <<firstVars, secondVars, sessionVars, chainVars, ledgerVars>>

\* The read of a counter by one of the statements of lines 1267-1269.
ReadCounter ==
    /\ \E w \in 1..RaceWorkers :
        /\ worker_pc[w] \in {At(k, "read") : k \in 1..Len(Counters)}
        /\ worker_reg' =
              [worker_reg EXCEPT ![w] = callback[Counters[worker_pc[w].k]]]
        /\ worker_pc' = [worker_pc EXCEPT ![w] = At(worker_pc[w].k, "write")]
    /\ UNCHANGED <<worker_tokens, callback_start>>
    /\ UNCHANGED <<firstVars, secondVars, sessionVars, chainVars, ledgerVars>>

\* The write of the sum by the same statement; after the third, line 1270.
WriteCounter ==
    /\ \E w \in 1..RaceWorkers :
        /\ worker_pc[w] \in {At(k, "write") : k \in 1..Len(Counters)}
        /\ LET k == worker_pc[w].k IN
            /\ callback' =
                  [callback EXCEPT ![Counters[k]] =
                      worker_reg[w] + increment(worker_tokens[w], k)]
            /\ worker_pc' =
                  [worker_pc EXCEPT ![w] =
                      IF k < Len(Counters) THEN At(k + 1, "read")
                      ELSE At(0, "returned")]
    /\ UNCHANGED <<worker_reg, worker_tokens, callback_start>>
    /\ UNCHANGED <<no_llm_cache, eval_llm_has_n, doc_eval_cache, judge_calls,
                   last_eval, n_evals>>
    /\ UNCHANGED <<firstVars, secondVars, sessionVars, chainVars>>

NextRace == RunChecks \/ ReadCounter \/ WriteCounter

SpecRace == InitRace /\ [][NextRace]_vars

(***************************************************************************)
(* The properties checked, each under the specification named with it.     *)
(***************************************************************************)
DigitChars(s) == {s[i] : i \in {j \in 1..Len(s) : isdigit(s[j])}}

VotesOf(evaluation) ==
    IF evaluation.islist THEN evaluation.items ELSE <<evaluation.item>>

\* The documents of docs at the positions in I, in the order of docs.
RECURSIVE SubseqAt(_, _, _)
SubseqAt(docs, I, i) ==
    IF i > Len(docs) THEN <<>>
    ELSE (IF i \in I THEN <<docs[i]>> ELSE <<>>) \o SubseqAt(docs, I, i + 1)

FirstOccurrences(docs) ==
    {i \in 1..Len(docs) : \A j \in 1..(i - 1) : docs[j].hash # docs[i].hash}

LastOccurrences(docs) ==
    {i \in 1..Len(docs) :
        \A j \in (i + 1)..Len(docs) : docs[j].hash # docs[i].hash}

\* C1 (SpecBudget): once the budget check has run on an estimate above
\* dollar_limit, the task has failed without any summarization call when
\* the endpoint of the model is not overridden, and has only logged the
\* breach, without failing, when it is overridden.
C1_BreachFatalUnlessOverridden ==
    (/\ summary_out # NotCalled
     /\ over_limit(full_tkn, llm_price, summary_n_recursion, dollar_limit))
    => IF api_base = NoApiBase
       THEN summary_out = Raise(PlainException) /\ llm_calls = 0
       ELSE summary_out.kind # "raise" /\ budget_log # "none"

\* C2 (SpecParse): parse_eval_output ends by returning or by raising
\* InvalidDocEvaluationByWeakLLM, and it returns the digit d for every
\* output that is not blank, has no '-' and whose digit characters are all
\* d, for d = 0 and for d = 1.
C2_SingleClassDigitReturned ==
    parse_out # NotCalled =>
        /\ \/ parse_out.kind = "return"
           \/ parse_out = Raise(InvalidDocEvaluationByWeakLLM)
        /\ \A d \in {"0", "1"} :
            (/\ strip(output) # <<>>
             /\ "-" \notin Range(output)
             /\ DigitChars(output) = {d})
            => parse_out = Return(d)

\* C3 (SpecParse): parse_eval_output raises InvalidDocEvaluationByWeakLLM
\* for every output that is empty or all whitespace, has a '-', has no
\* digit, has both a 0 and a 1, or has digits but neither 0 nor 1; "1" and
\* "0" are returned unchanged.
C3_InvalidOutputsRaise ==
    parse_out # NotCalled =>
        /\ (\/ \A i \in 1..Len(output) : isspace(output[i])
            \/ "-" \in Range(output)
            \/ DigitChars(output) = {}
            \/ {"0", "1"} \subseteq DigitChars(output)
            \/ DigitChars(output) \cap {"0", "1"} = {})
           => parse_out = Raise(InvalidDocEvaluationByWeakLLM)
        /\ output = <<"1">> => parse_out = Return("1")
        /\ output = <<"0">> => parse_out = Return("0")

\* The output "-1" has been parsed and rejected.
C3_Witness ==
    /\ output = <<"-", "1">>
    /\ parse_out = Raise(InvalidDocEvaluationByWeakLLM)

\* C4 (SpecFilter): after refilter_docs, document i is among the kept ones
\* exactly if some vote of it is not zero when all its votes are digit
\* strings (for votes 0 and 1: exactly if one of them is 1), and always when
\* one of its votes is not a digit string; the kept documents are in the
\* order of unfiltered_docs.
C4_KeptIffAnyPositiveVote ==
    rag_out # NotCalled =>
        LET kept == IF rag_out.kind = "return" THEN rag_out.val ELSE <<>> IN
        /\ \A i \in 1..Len(unfiltered_docs) :
            LET v == VotesOf(evaluations[i])
                isKept == unfiltered_docs[i] \in Range(kept)
                allDigits == \A k \in 1..Len(v) : str_isdigit(v[k])
            IN  /\ allDigits =>
                    (isKept <=> \E k \in 1..Len(v) : str_int(v[k]) > 0)
                /\ Range(v) \subseteq {<<"0">>, <<"1">>} =>
                    (isKept <=> <<"1">> \in Range(v))
                /\ ~allDigits => isKept
        /\ \A a, b \in 1..Len(kept) : a < b => kept[a] < kept[b]
        /\ Range(kept) \subseteq Range(unfiltered_docs)

\* Votes 1,0,0 kept the first document and votes 0,0,0 dropped the second.
C4_Witness ==
    /\ Len(unfiltered_docs) = 2
    /\ evaluations[1] = EvalList(<<<<"1">>, <<"0">>, <<"0">>>>)
    /\ evaluations[2] = EvalList(<<<<"0">>, <<"0">>, <<"0">>>>)
    /\ rag_out = Return(<<1>>)

\* C5 (SpecFilter): when at least one document was retrieved and every vote
\* of every document is 0, the filtering fails with
\* NoDocumentsAfterLLMEvalFiltering, another kind than
\* NoDocumentsRetrieved, and _query ends by reporting that no document
\* remained after the filter.
C5_AllZeroVotesReported ==
    (/\ Len(unfiltered_docs) >= 1
     /\ \A i \in 1..Len(evaluations) :
            Range(VotesOf(evaluations[i])) = {<<"0">>})
    => /\ NoDocumentsAfterLLMEvalFiltering # NoDocumentsRetrieved
       /\ rag_out # NotCalled =>
            rag_out = Raise(NoDocumentsAfterLLMEvalFiltering)
       /\ query_out # NotCalled =>
            query_out =
                Reported("No documents remained after query eval LLM filtering")

\* C6 (SpecFilter): with an empty unfiltered_docs, refilter_docs raises
\* NoDocumentsRetrieved, and _query ends by reporting that no documents
\* were retrieved, without a final answer.
C6_EmptyRetrievalReported ==
    unfiltered_docs = <<>> =>
        /\ rag_out # NotCalled => rag_out = Raise(NoDocumentsRetrieved)
        /\ query_out # NotCalled =>
            /\ query_out = Reported("No documents were retrieved")
            /\ ~query_out.final_answer

\* _query has returned from its first except clause on an empty retrieval.
C6_Witness ==
    /\ unfiltered_docs = <<>>
    /\ evaluations = <<>>
    /\ rag_out = Raise(NoDocumentsRetrieved)
    /\ query_out = Reported("No documents were retrieved")

\* C7 (SpecDedup): after the duplicate removal of a list of more than one
\* document, loaded_docs holds exactly one document for every hash of the
\* list, each a document of the list, and is not empty.
C7_OneDocumentPerHash ==
    (init_out = Return("loaded") /\ Len(batch_docs) > 1) =>
        /\ \A h \in uniq_hashes(batch_docs) : count_hash(loaded_docs, h) = 1
        /\ Range(loaded_docs) \subseteq Range(batch_docs)
        /\ loaded_docs # <<>>

\* Three documents, two of them with the same hash, became two.
C7_Witness ==
    /\ init_out = Return("loaded")
    /\ Len(batch_docs) = 3
    /\ Cardinality(uniq_hashes(batch_docs)) = 2
    /\ Len(loaded_docs) = 2
    /\ Len(removed_docs) = 1

\* C8 as stated (SpecDedup): after the duplicate removal, loaded_docs is
\* the first occurrence of every hash, in the order of the loaded list.
C8_FirstOccurrenceKept ==
    init_out = Return("loaded") =>
        loaded_docs = SubseqAt(batch_docs, FirstOccurrences(batch_docs), 1)

\* C8 as amended (SpecDedup): after the duplicate removal, loaded_docs is
\* the last occurrence of every hash, in the order of the loaded list, and
\* the documents removed are the earlier occurrences.
C8_LastOccurrenceKept ==
    init_out = Return("loaded") =>
        /\ loaded_docs = SubseqAt(batch_docs, LastOccurrences(batch_docs), 1)
        /\ removed_docs =
            SubseqAt(batch_docs,
                     (1..Len(batch_docs)) \ LastOccurrences(batch_docs), 1)

\* Hashes A, B, A became B, A: the second and the third document.
C8_Witness ==
    /\ init_out = Return("loaded")
    /\ Len(batch_docs) = 3
    /\ [i \in 1..3 |-> batch_docs[i].hash] = <<"hA", "hB", "hA">>
    /\ [i \in 1..Len(loaded_docs) |-> loaded_docs[i].mid] = <<2, 3>>

\* C9 (SpecDedup): when the path of a removed document is still the path
\* of a kept document, the construction has raised.
C9_PartlyRemovedSourceRaises ==
    (/\ init_out # NotCalled
     /\ \E i \in 1..Len(removed_docs) : \E k \in 1..Len(loaded_docs) :
            removed_docs[i].path = loaded_docs[k].path)
    => init_out.kind = "raise"

\* C10 (SpecAnswer): check_intermediate_answer is false exactly for the
\* answers shorter than 20 characters that hold the standalone word
\* IRRELEVANT: so for IRRELEVANT alone, and for no answer of 20 characters
\* or more.
C10_UnusableIffShortWithSentinel ==
    usable # NotCalled =>
        /\ (usable.val = FALSE) <=> (Len(ans) < 20 /\ search_IRRELEVANT(ans))
        /\ ans = IRRELEVANT => usable.val = FALSE
        /\ Len(ans) >= 20 => usable.val = TRUE
        /\ usable.val \in BOOLEAN

\* An answer of exactly 20 characters with the standalone word is usable.
C10_Witness ==
    /\ Len(ans) = 20
    /\ search_IRRELEVANT(ans)
    /\ usable = Return(TRUE)

\* The calls of final_answer_chain made by the while loop, or after it.
CallsWhere(calls, batched) ==
    SelectSeq(calls, LAMBDA c : c.batched = batched)

BatchesOf(calls) == [b \in 1..Len(calls) |-> calls[b].intermediate_answers]

\* batches cuts answers, in order, into lists of batch_size answers and a
\* last list of at most batch_size answers.
IsOrderedPartition(batches, answers) ==
    /\ Concat(batches) = answers
    /\ \A b \in 1..Len(batches) : Len(batches[b]) <= batch_size
    /\ \A b \in 1..(Len(batches) - 1) : Len(batches[b]) = batch_size

\* C11 (SpecReduce): each pass of the reduction makes exactly one combine
\* call per batch, the batches being the usable answers of the level cut in
\* their order into lists of 5 and a last list of at most 5, and gets one
\* answer per batch; the reduction ends with exactly one more combine call,
\* made over the answers that remain once they are at most 5.
C11_BatchesPartitionUsableAnswers ==
    [][/\ n_passes' # n_passes =>
            LET made == SubSeq(combine_calls', Len(combine_calls) + 1,
                               Len(combine_calls'))
            IN /\ IsOrderedPartition(BatchesOf(made),
                      combined_answers(intermediate_answers))
               /\ \A b \in 1..Len(made) : made[b].batched
               /\ Len(intermediate_answers') = Len(made)
       /\ reduce_out' # reduce_out =>
            /\ Len(intermediate_answers) <= batch_size
            /\ combine_calls' = Append(combine_calls,
                   CombineCall(intermediate_answers, FALSE))
            /\ Len(CallsWhere(combine_calls', FALSE)) = 1
      ]_vars

\* Twelve usable answers were reduced in batches of 5, 5 and 2 and then
\* by one call over the three answers of the batches.
C11_Witness ==
    /\ reduce_out # NotCalled
    /\ Len(combined_answers(doc_answers)) = 12
    /\ Len(combine_calls) = 4
    /\ Len(combine_calls[1].intermediate_answers) = 5
    /\ Len(combine_calls[2].intermediate_answers) = 5
    /\ Len(combine_calls[3].intermediate_answers) = 2
    /\ ~combine_calls[4].batched
    /\ Len(combine_calls[4].intermediate_answers) = 3

\* C12 (SpecReduce): when at most 5 of the per-document answers are usable,
\* the query ends with no pass of the while loop made, no combine call over
\* an empty batch, and one combine call in all.
C12_NoPassUnlessMoreThanFiveUsable ==
    (/\ reduce_out # NotCalled
     /\ Len(combined_answers(doc_answers)) <= batch_size)
    => /\ n_passes = 0
       /\ \A c \in 1..Len(combine_calls) :
            combine_calls[c].batched =>
                combine_calls[c].intermediate_answers # <<>>
       /\ Len(combine_calls) = 1

\* C13 (SpecReduce): the trail of the output starts with the per-document
\* answers, ends with the list given to the final combine call, and has
\* one list more than there were passes of the while loop.
C13_TrailHasEveryLevel ==
    reduce_out # NotCalled =>
        LET trail == reduce_out.val.all_intermediate_answeers IN
        /\ Len(trail) = n_passes + 1
        /\ trail[1] = doc_answers
        /\ trail[Len(trail)] =
              combine_calls[Len(combine_calls)].intermediate_answers

\* C14 (SpecReduce): relevant_filtered_docs and relevant_intermediate_answers
\* of the output are the filtered documents whose answer
\* check_intermediate_answer accepts, and these answers, both in the order
\* of filtered_docs.
C14_RelevantListsAligned ==
    reduce_out # NotCalled =>
        LET o == reduce_out.val
            accepted == {i \in 1..Len(o.intermediate_answers) :
                            check_intermediate_answer(o.intermediate_answers[i])}
        IN /\ o.relevant_filtered_docs = SubseqAt(o.filtered_docs, accepted, 1)
           /\ o.relevant_intermediate_answers =
                 SubseqAt(o.intermediate_answers, accepted, 1)
           /\ Len(o.relevant_filtered_docs) =
                 Len(o.relevant_intermediate_answers)

\* A query of seven documents ended with the answers of the second and the
\* fifth document not usable, after one pass of the while loop.
C14_Witness ==
    /\ reduce_out # NotCalled
    /\ n_passes = 1
    /\ reduce_out.val.relevant_filtered_docs = <<1, 3, 4, 6, 7>>

\* C15 (SpecCleanup): the cleanup applied to its own result gives that
\* result again.
C15_CleanupIdempotent ==
    cleaned_twice # NotCalled => cleaned_twice = cleaned_once

\* C16 (SpecCleanup): the cleanup of a summary text ends without any of its
\* three assert statements failing.
C16_CleanupAssertsHold ==
    cleaned_once # NotCalled => cleaned_once.kind = "return"

RECURSIVE SumSeq(_)
SumSeq(s) == IF s = <<>> THEN 0 ELSE Head(s) + SumSeq(Tail(s))

\* C17 (SpecRecursion): once the token check of pass k has failed, the
\* function has not raised, the summarization calls made are the first one
\* and those of the passes 1..k-1, n_recursion_done is k-1, the summaries
\* kept are those of the depths 0..k-1, and the token total is the sum over
\* the calls made.
C17_EarlyStopKeepsDepth ==
    stopped_at # 0 =>
        /\ summarize_out.kind # "raise"
        /\ summarize_calls = [c \in 1..stopped_at |-> c - 1]
        /\ n_recursion_done = stopped_at - 1
        /\ DOMAIN recursive_summaries = 0..(stopped_at - 1)
        /\ Len(pass_tokens) = stopped_at
        /\ doc_total_tokens = SumSeq(pass_tokens)
        /\ summarize_out.kind = "return" =>
              summarize_out.val.doc_total_tokens = SumSeq(pass_tokens)

\* The token check failed at the second pass and the function returned.
C17_Witness ==
    /\ stopped_at = 2
    /\ summary_n_recursion = 2
    /\ summarize_out.kind = "return"

\* C18 (SpecRecursion): the summary returned is the summary kept for the
\* depth n_recursion_done.
C18_ReturnedSummaryIsDeepest ==
    summarize_out.kind = "return" =>
        summarize_out.val.summary = recursive_summaries[n_recursion_done]

\* C19 (SpecConc): at every moment of rag_chain.invoke the calls of the
\* models in flight are at most multi["max_concurrency"], 50 or, in debug
\* mode, 1.
C19_InFlightWithinCeiling == in_flight <= max_concurrency(debug)

\* The backend did not answer with query_eval_check_number generations:
\* another number in the one call, or not one in a repeated call.
WrongNumberOfGenerations ==
    IF single_call(eval_has_n)
    THEN Len(eval_response) # query_eval_check_number
    ELSE \E c \in 1..Len(eval_response) : Len(eval_response[c]) # 1

AllGenerations ==
    IF single_call(eval_has_n) THEN Range(eval_response)
    ELSE UNION {Range(eval_response[c]) : c \in 1..Len(eval_response)}

\* Every generation ended with "stop" and reads as a vote.
GenerationsWellFormed ==
    \A g \in AllGenerations :
        g.finish_reason = "stop" /\ parse_eval_output(g.text).kind = "return"

ReturnsAllVotes ==
    eval_out.kind = "return" =>
        /\ Len(eval_out.val) = query_eval_check_number
        /\ \A v \in 1..Len(eval_out.val) : eval_out.val[v] \in {"0", "1"}

Factors == {2, 3}

\* The sum of (2/5)^i for i = 0..n, times 5^n.
GeometricSum(n) == (pow(5, n + 1) - pow(2, n + 1)) \div 3

\* C24 (SpecBudget): the estimate of k times the tokens is k times the
\* estimate, and the estimate for n recursions is the estimate for none
\* times the sum of (2/5)^i for i = 0..n.
C24_EstimateLinearAndGeometric ==
    summary_out # NotCalled =>
        /\ \A k \in Factors :
              estimate_num(k * full_tkn, llm_price, summary_n_recursion) =
                  k * estimate_num(full_tkn, llm_price, summary_n_recursion)
        /\ estimate_num(full_tkn, llm_price, summary_n_recursion) =
              estimate_num(full_tkn, llm_price, 0)
                  * GeometricSum(summary_n_recursion)
        /\ estimate_den(summary_n_recursion) =
              estimate_den(0) * pow(5, summary_n_recursion)

\* The budget check ran on a positive estimate for two recursions.
C24_Witness ==
    /\ summary_out # NotCalled
    /\ summary_n_recursion = 2
    /\ full_tkn = 100
    /\ estimate_num(full_tkn, llm_price, summary_n_recursion) =
          (IF modelname = "openai/gpt-4o" THEN 9 ELSE 24) * 100 * 12 * 39

\* C28 (SpecReduce): a pass of the while loop leaves fewer answers than it
\* finds, so that after p passes at most the number of per-document answers
\* minus p remain; and the reduction ends with exactly one combine call made
\* after the loop, over at most 5 answers.
C28_ReductionTerminates ==
    /\ Len(intermediate_answers) + n_passes <= Len(doc_answers)
    /\ (reduce_out = NotCalled /\ Len(intermediate_answers) > batch_size) =>
          Len(make_batches(intermediate_answers)) < Len(intermediate_answers)
    /\ reduce_out # NotCalled =>
          /\ Len(CallsWhere(combine_calls, FALSE)) = 1
          /\ ~combine_calls[Len(combine_calls)].batched
          /\ Len(combine_calls[Len(combine_calls)].intermediate_answers)
                <= batch_size

\* A level of eight answers, none of them usable, was reduced in one pass
\* to one answer, and the final combine call was made.
C28_Witness ==
    /\ reduce_out # NotCalled
    /\ Len(doc_answers) = 8
    /\ combined_answers(doc_answers) = <<>>
    /\ n_passes = 1
    /\ Len(intermediate_answers) = 1

\* "_".join(names)
RECURSIVE join_names(_)
join_names(names) ==
    IF Len(names) = 1 THEN names[1]
    ELSE names[1] \o T_underscore \o join_names(Tail(names))

MaxTokens == 3

\* The setting is one to three of the five strategy names, joined by
\* underscores.
IsJoinOfNames(setting) ==
    \E k \in 1..MaxTokens : \E names \in [1..k -> RetrieverNames] :
        join_names(names) = setting

EventsOfQuery(n, kinds) ==
    {i \in 1..Len(events) : events[i].n = n /\ events[i].kind \in kinds}

\* C25 (SpecSession): after a call of _query, the call failed at the
\* validation of the retriever setting exactly if the setting is not an
\* underscore-joined list of names among default, hyde, knn, svm, parent;
\* a call that failed there built no retriever and retrieved nothing, and
\* any other call selected at least one retriever.
C25_RetrieverSettingValidated ==
    n_queries >= 1 =>
        /\ (failed_line = 912) <=> ~IsJoinOfNames(interaction_settings)
        /\ failed_line = 912 =>
              /\ retrievers = <<>>
              /\ EventsOfQuery(n_queries, {"construct", "retrieve"}) = {}
        /\ failed_line # 912 =>
              /\ retrievers # <<>>
              /\ failed_line # 971

\* The setting default_bm25 was refused by the first call of _query.
C25_Witness ==
    /\ n_queries = 1
    /\ interaction_settings = <<"d", "e", "f", "a", "u", "l", "t", "_", "b", "m", "2", "5">>
    /\ failed_line = 912
    /\ session_out = Raise(AssertionError)

\* s.count(sub), sub not empty
RECURSIVE count(_, _)
count(s, sub) ==
    IF ~contains(s, sub) THEN 0
    ELSE 1 + count(SubSeq(s, find(s, sub) + Len(sub), Len(s)), sub)

C29_SwitchesToQueryMode ==
    (/\ args.task \in {T_summarize_then_query, T_summary_then_query}
     /\ \E j \in 1..Len(events) : events[j] = SummaryEvent)
        => session_out # Raise(SystemExit)

\* C30 (SpecSession): with a model name that contains 'testing' and a
\* retriever setting made of strategy names, hyde among them, a call of
\* _query does not fail at the validation of the setting nor for want of a
\* retriever.
C30_TestingModelDropsHyde ==
    (/\ n_queries >= 1
     /\ contains(args.modelname, T_testing)
     /\ IsJoinOfNames(args.query_retrievers)
     /\ \E i \in 1..Len(split(args.query_retrievers, T_underscore)) :
            split(args.query_retrievers, T_underscore)[i] = T_hyde)
        => failed_line \notin {912, 971}

\* The documents of which at least one vote is not 0.
AcceptedDocs ==
    {i \in 1..Len(retrieved_docs) :
        /\ doc_evaluations[i].kind = "return"
        /\ \E k \in 1..query_eval_check_number :
              doc_evaluations[i].val.items[k] # <<"0">>}

AnsweredDocs == {answer_calls[j].doc : j \in 1..Len(answer_calls)}

\* C27 (SpecChain): an answer is asked for only once every evaluation has
\* returned its votes and refilter_docs has returned, only for a document
\* refilter_docs kept, and at most once for a document; when the chain has
\* returned, exactly the kept documents have been answered; when nothing
\* was retrieved, an evaluation failed, or no document was kept, no answer
\* is asked for and the reduction is not entered.
C27_AnswersOncePerFilteredDoc ==
    /\ answer_calls # <<>> =>
          /\ refiltered.kind = "return"
          /\ \A i \in 1..Len(retrieved_docs) :
                doc_evaluations[i].kind = "return"
    /\ AnsweredDocs \subseteq AcceptedDocs
    /\ \A j, k \in 1..Len(answer_calls) :
          answer_calls[j].doc = answer_calls[k].doc => j = k
    /\ chain_out = Answered => AnsweredDocs = AcceptedDocs
    /\ combine_started => AnsweredDocs = AcceptedDocs /\ AcceptedDocs # {}
    /\ (\/ retrieved_docs = <<>>
        \/ \E i \in 1..Len(retrieved_docs) : doc_evaluations[i].kind = "raise"
        \/ refiltered.kind = "raise")
          => answer_calls = <<>> /\ ~combine_started /\ chain_out # Answered

\* Of three documents the second was rejected with three votes 0; the first
\* and the third were answered and the chain returned.
C27_Witness ==
    /\ Len(retrieved_docs) = 3
    /\ doc_evaluations[2] = Return(EvalList(<<<<"0">>, <<"0">>, <<"0">>>>))
    /\ AnsweredDocs = {1, 3}
    /\ Len(answer_calls) = 2
    /\ chain_out = Answered
    /\ combine_started

\* The entries the cache held for the key of the last call, before it.
CachedBefore ==
    {c \in last_eval.before.doc_eval_cache : c.key = last_eval.key}

\* C21 (SpecLedger): with the cache enabled, a call of evaluate_doc_chain
\* whose question, document, sample count and model name were already in
\* the cache returns the votes stored for them, makes no call of the judge
\* model and leaves the three token counters as they were.
C21_CacheHitReturnsCachedVotes ==
    (n_evals >= 1 /\ ~no_llm_cache /\ CachedBefore # {}) =>
        /\ \E c \in CachedBefore : last_eval.out = Return(c.votes)
        /\ judge_calls = last_eval.before.judge_calls
        /\ callback = last_eval.before.callback

\* The second call, for the key of the first, returned the votes 1, 0, 1 of
\* the first without a call.
C21_Witness ==
    /\ n_evals = 2
    /\ ~no_llm_cache
    /\ CachedBefore # {}
    /\ last_eval.out = Return(<<"1", "0", "1">>)
    /\ judge_calls = calls_of_run(eval_llm_has_n)
    /\ callback.total_tokens > 0

\* C22 (SpecLedger): the last call of evaluate_doc_chain, when it was not
\* answered by the cache, has added the prompt and completion tokens of
\* the judge calls that returned to the counters, however it ended.
C22_ReturnedCallsAreCounted ==
    (n_evals >= 1 /\ (no_llm_cache \/ CachedBefore = {})) =>
        /\ callback.prompt_tokens =
              last_eval.before.callback.prompt_tokens + last_eval.new_p
        /\ callback.completion_tokens =
              last_eval.before.callback.completion_tokens + last_eval.new_c
        /\ callback.total_tokens =
              last_eval.before.callback.total_tokens
                  + last_eval.new_p + last_eval.new_c

RECURSIVE SumReturned(_, _)
SumReturned(w, k) ==
    IF w = 0 THEN 0
    ELSE SumReturned(w - 1, k)
         + (IF worker_pc[w] = At(0, "returned")
            THEN increment(worker_tokens[w], k) ELSE 0)

\* C23 (SpecRace): once every evaluation of the query has returned or
\* failed, each of the three counters is its value before the query plus
\* the tokens of the evaluations that returned.
C23_ConcurrentAccumulationIsSafe ==
    (\A w \in 1..RaceWorkers : worker_pc[w].phase \in {"returned", "failed"}) =>
        \A k \in 1..Len(Counters) :
            callback[Counters[k]] =
                callback_start[Counters[k]] + SumReturned(RaceWorkers, k)

====
